---- MODULE Spec2Model ----
(***************************************************************************)
(* A model of the roBrowser remote client: the LRU file cache              *)
(* (src/utils/LRUCache.js) and the client controller                       *)
(* (src/controllers/clientController.js).                                  *)
(***************************************************************************)
EXTENDS Integers, Sequences, FiniteSets, TLC

VARIABLES
  fileCache,   \* the LRUCache object: maxSize, maxMemoryBytes, cache, currentMemory, hits, misses
  lastOp,      \* log: the last cache operation, its arguments and what it returned
  recency,     \* log: every key ever used, least recently used first
  opCount,     \* log: number of cache operations performed so far
  nextFill,    \* log: number of filler keys inserted so far
  script,      \* log: how far the operations so far follow scenario S3 (-1: they do not)
  resources,   \* disk: the archives of the resources directory, name -> <<[path, data]>>
  dataIni,     \* disk: the lines of resources/DATA.INI
  pathMapping, \* module variable pathMapping: [loaded, paths], paths in key order
  localFiles,  \* disk: the files under the server root, path -> data
  AutoExtract, \* Client.AutoExtract
  grfs,        \* Client.grfs
  fileIndex,   \* module variable fileIndex: the Map as a sequence of [key, entry]
  indexBuilt,  \* module variable indexBuilt
  initPc,      \* where Client.init stands: "idle", "loading", "done"
  requests,    \* the getFile calls in flight, one per slot
  immediates,  \* the setImmediate callbacks queued by extractFile
  missingFiles,    \* Client.missingFiles
  missingFilesSet, \* module variable missingFilesSet
  logQueue,        \* module variable logQueue
  logFlushTimer,   \* module variable logFlushTimer: is the timeout armed
  missingFilesLog, \* disk: the entries appended to logs/missing-files.log
  fetched,     \* log: the getFile calls that have returned, in order of return
  archives,    \* disk: the archive files as the validator reads them, name -> header, table, ...
  serverPc,    \* where startServer stands: "validating", "listening", "exited"
  validation,  \* what the validator last returned
  reportGrfs,  \* validate-all-grfs: what validateGrf returns for each archive of the folder
  reportSummary,   \* validate-all-grfs: report.summary
  exitCode,    \* validate-all-grfs: the exit code of the process, Running before it exits
  listedFiles, \* routes: the array the last Client.listFiles() returned, empty before
  now,         \* the reading of Date.now(), in ms
  lastNotificationTime, \* module variable lastNotificationTime
  notifications, \* console: the MISSING FILES ALERTs printed, [at, held]
  EnableSearch, \* configs.CLIENT_ENABLESEARCH
  warming,      \* where a Client.warmCache call stands: [pc, patterns, i, warmed]
  reply,        \* what the last call of search or getIndexStats returned
  openFds       \* the descriptors that the validator has opened and not closed, [file, fd]

cacheLog == <<lastOp, recency, opCount, nextFill, script>>

client == <<resources, dataIni, pathMapping, localFiles, AutoExtract, grfs, fileIndex,
            indexBuilt, initPc, requests, immediates, missingFiles, missingFilesSet,
            logQueue, logFlushTimer, missingFilesLog, fetched, archives, serverPc, validation>>

tools == <<reportGrfs, reportSummary, exitCode>>

alerts == <<now, lastNotificationTime, notifications>>

reads == <<EnableSearch, warming, reply>>

vars == <<fileCache, cacheLog, client, tools, listedFiles, alerts, reads, openFds>>

(***************************************************************************)
(* Bounds of the model.                                                    *)
(***************************************************************************)
MaxEntries == 2      \* the small count budgets are 0..MaxEntries
NumHot == 3          \* keys that every operation may name
NumFill == 11        \* keys that are inserted once each, in order
MaxOps == 4          \* operations in one run of a small configuration
MaxFillOps == 1      \* operations besides the fills in one run of the default configuration
SmallBudget == 10    \* a byte budget whose tenth is one byte
MaxProbes == 2       \* get operations in one run of scenario S3

DefaultMaxFiles == 100   \* the count budget the client configures by default

(***************************************************************************)
(* Values.  A JS value handed to the cache is a Buffer or is not one.      *)
(***************************************************************************)
NoData == [isBuffer |-> FALSE, id |-> "null", length |-> 0]

Buf(id, length) == [isBuffer |-> TRUE, id |-> id, length |-> length]

RangeOf(s) == {s[i] : i \in 1..Len(s)}

\* process.exit has not been called
Running == -1

\* the reading of Date.now() when the process starts, in a clock whose readings
\* are far above the cooldown, as those of a real clock are
Boot == 100000

\* the module state of the alerts as the module is loaded
NoAlerts ==
  /\ now = Boot
  /\ lastNotificationTime = 0
  /\ notifications = <<>>

NotWarming == [pc |-> "idle", patterns |-> <<>>, i |-> 0, warmed |-> 0]

NoReply == [op |-> "none", value |-> <<>>]

\* a process in which search is disabled and nothing was asked yet
NoReads ==
  /\ EnableSearch = FALSE
  /\ warming = NotWarming
  /\ reply = NoReply

\* a process that does not run the batch validator
NoTools ==
  /\ reportGrfs = <<>>
  /\ reportSummary = <<>>
  /\ exitCode = Running

\* a process that has loaded the cache module alone: no controller state
NoClient ==
  /\ resources = <<>>
  /\ dataIni = <<>>
  /\ pathMapping = [loaded |-> FALSE, paths |-> <<>>]
  /\ localFiles = <<>>
  /\ AutoExtract = FALSE
  /\ grfs = <<>>
  /\ fileIndex = <<>>
  /\ indexBuilt = FALSE
  /\ initPc = "idle"
  /\ requests = <<>>
  /\ immediates = <<>>
  /\ missingFiles = <<>>
  /\ missingFilesSet = {}
  /\ logQueue = <<>>
  /\ logFlushTimer = FALSE
  /\ missingFilesLog = <<>>
  /\ fetched = <<>>
  /\ listedFiles = <<>>
  /\ NoReads
  /\ openFds = {}
  /\ NoAlerts
  /\ archives = <<>>
  /\ serverPc = "validating"
  /\ validation = <<>>

(***************************************************************************)
(* class LRUCache.  The Map `cache' is a sequence in insertion order of    *)
(* [key, data, size]; the first element is what keys().next() yields.      *)
(***************************************************************************)
NewLRUCache(maxSize, maxMemoryBytes) ==
  [maxSize |-> maxSize, maxMemoryBytes |-> maxMemoryBytes, cache |-> <<>>,
   currentMemory |-> 0, hits |-> 0, misses |-> 0]

MapKeys(m) == {m[i].key : i \in 1..Len(m)}

MapHas(m, key) == key \in MapKeys(m)

MapGet(m, key) == m[CHOOSE i \in 1..Len(m) : m[i].key = key]

MapDelete(m, key) == SelectSeq(m, LAMBDA e : e.key # key)

\* get(key)
LRUCacheGet(c, key) ==
  IF ~MapHas(c.cache, key)
  THEN [c |-> [c EXCEPT !.misses = @ + 1], ret |-> NoData]
  ELSE LET item == MapGet(c.cache, key)
       IN [c |-> [c EXCEPT !.cache = Append(MapDelete(c.cache, key), item),
                           !.hits = @ + 1],
           ret |-> item.data]

\* "Don't cache files larger than 10% of max memory": size > maxMemoryBytes * 0.1
TooLargeNoTenth(c, size) == size > c.maxMemoryBytes

TooLarge(c, size) == size * 10 > c.maxMemoryBytes

\* "Remove if exists"
RemoveExistingKeepBytes(c, key) ==
  IF MapHas(c.cache, key)
  THEN [c EXCEPT !.cache = MapDelete(c.cache, key)]
  ELSE c

RemoveExisting(c, key) ==
  IF MapHas(c.cache, key)
  THEN [c EXCEPT !.currentMemory = @ - MapGet(c.cache, key).size,
                 !.cache = MapDelete(c.cache, key)]
  ELSE c

\* "Evict until we have space": the while loop of set; evicted lists the keys removed
RECURSIVE EvictNewest(_, _, _)
EvictNewest(c, size, evicted) ==
  IF (Len(c.cache) >= c.maxSize \/ c.currentMemory + size > c.maxMemoryBytes)
     /\ Len(c.cache) > 0
  THEN LET last == c.cache[Len(c.cache)]
       IN EvictNewest([c EXCEPT !.currentMemory = @ - last.size,
                                !.cache = SubSeq(c.cache, 1, Len(c.cache) - 1)],
                      size, Append(evicted, last.key))
  ELSE [c |-> c, evicted |-> evicted]

RECURSIVE EvictUntilSpace(_, _, _)
EvictUntilSpace(c, size, evicted) ==
  IF (Len(c.cache) >= c.maxSize \/ c.currentMemory + size > c.maxMemoryBytes)
     /\ Len(c.cache) > 0
  THEN LET firstItem == Head(c.cache)
       IN EvictUntilSpace([c EXCEPT !.currentMemory = @ - firstItem.size,
                                    !.cache = Tail(c.cache)],
                          size, Append(evicted, firstItem.key))
  ELSE [c |-> c, evicted |-> evicted]

\* a mutant: a key that is stored keeps its entry
LRUCacheSetKeepsFirst(c, key, data) ==
  IF ~data.isBuffer \/ TooLarge(c, data.length) \/ MapHas(c.cache, key)
  THEN [c |-> c, admitted |-> FALSE, evicted |-> <<>>]
  ELSE LET size == data.length
           ev == EvictUntilSpace(c, size, <<>>)
       IN [c |-> [ev.c EXCEPT !.cache = Append(@, [key |-> key, data |-> data, size |-> size]),
                              !.currentMemory = @ + size],
           admitted |-> TRUE,
           evicted |-> ev.evicted]

\* set(key, data)
LRUCacheSet(c, key, data) ==
  IF ~data.isBuffer
  THEN [c |-> c, admitted |-> FALSE, evicted |-> <<>>]
  ELSE IF TooLarge(c, data.length)
  THEN [c |-> c, admitted |-> FALSE, evicted |-> <<>>]
  ELSE LET size == data.length
           ev == EvictUntilSpace(RemoveExisting(c, key), size, <<>>)
       IN [c |-> [ev.c EXCEPT !.cache = Append(@, [key |-> key, data |-> data, size |-> size]),
                              !.currentMemory = @ + size],
           admitted |-> TRUE,
           evicted |-> ev.evicted]

\* has(key)
LRUCacheHas(c, key) == MapHas(c.cache, key)

\* clear()
LRUCacheClear(c) == [c EXCEPT !.cache = <<>>, !.currentMemory = 0]

(***************************************************************************)
(* The log of uses: a use of a key is a get that hits or a set that stores.*)
(***************************************************************************)
Touch(r, key) == Append(SelectSeq(r, LAMBDA k : k # key), key)

Pos(r, key) == CHOOSE i \in 1..Len(r) : r[i] = key

Op(op, key, data, ret, evicted) ==
  [op |-> op, key |-> key, data |-> data, ret |-> ret, evicted |-> evicted]

(***************************************************************************)
(* SpecLRU: a cache of any small configuration under get, set, has, clear. *)
(***************************************************************************)
HotKeys == 1..NumHot

FillKeys == (NumHot + 1)..(NumHot + NumFill)

Keys == HotKeys \cup FillKeys

Buffers == {Buf("x", 0), Buf("x", 1), Buf("y", 1), Buf("x", 2)}

FillBuffer == Buf("f", 1)

CountBudgets == (0..MaxEntries) \cup {DefaultMaxFiles}

ByteBudgets == {0, SmallBudget}

\* the default configuration is explored with fills, the small ones without
Budget == IF fileCache.maxSize = DefaultMaxFiles THEN MaxFillOps ELSE MaxOps

InitLRU ==
  /\ \E n \in CountBudgets, b \in ByteBudgets : fileCache = NewLRUCache(n, b)
  /\ lastOp = Op("new", 0, NoData, NoData, <<>>)
  /\ recency = <<>>
  /\ opCount = 0
  /\ nextFill = 0
  /\ script = -1
  /\ NoClient
  /\ NoTools

DoGet(k) ==
  LET r == LRUCacheGet(fileCache, k)
  IN /\ fileCache' = r.c
     /\ lastOp' = Op("get", k, NoData, r.ret, <<>>)
     /\ recency' = IF LRUCacheHas(fileCache, k) THEN Touch(recency, k) ELSE recency

DoSet(k, d) ==
  LET r == LRUCacheSet(fileCache, k, d)
  IN /\ fileCache' = r.c
     /\ lastOp' = Op("set", k, d, NoData, r.evicted)
     /\ recency' = IF r.admitted THEN Touch(recency, k) ELSE recency

Get(k) ==
  /\ opCount < Budget
  /\ DoGet(k)
  /\ opCount' = opCount + 1
  /\ UNCHANGED <<nextFill, script, client, tools, listedFiles, alerts, reads, openFds>>

Set(k, d) ==
  /\ opCount < Budget
  /\ DoSet(k, d)
  /\ opCount' = opCount + 1
  /\ UNCHANGED <<nextFill, script, client, tools, listedFiles, alerts, reads, openFds>>

SetFill ==
  /\ fileCache.maxSize = DefaultMaxFiles
  /\ nextFill < NumFill
  /\ DoSet(NumHot + nextFill + 1, FillBuffer)
  /\ nextFill' = nextFill + 1
  /\ UNCHANGED <<opCount, script, client, tools, listedFiles, alerts, reads, openFds>>

Has(k) ==
  /\ opCount < Budget
  /\ lastOp' = Op("has", k, NoData, [NoData EXCEPT !.id = IF LRUCacheHas(fileCache, k) THEN "true" ELSE "false"], <<>>)
  /\ opCount' = opCount + 1
  /\ UNCHANGED <<fileCache, recency, nextFill, script, client, tools, listedFiles, alerts, reads, openFds>>

Clear ==
  /\ opCount < Budget
  /\ fileCache' = LRUCacheClear(fileCache)
  /\ lastOp' = Op("clear", 0, NoData, NoData, <<>>)
  /\ opCount' = opCount + 1
  /\ UNCHANGED <<recency, nextFill, script, client, tools, listedFiles, alerts, reads, openFds>>

NextLRU ==
  \/ \E k \in Keys : Get(k)
  \/ \E k \in HotKeys, d \in Buffers \cup {NoData} : Set(k, d)
  \/ SetFill
  \/ \E k \in HotKeys : Has(k)
  \/ Clear

SpecLRU == InitLRU /\ [][NextLRU]_vars

(***************************************************************************)
(* SpecS3: the cache of scenario S3 (2 entries, 1024 bytes) under set and  *)
(* get; script follows the scenario's five insertions.                     *)
(***************************************************************************)
\* LRU with maxEntries = 2, maxBytes = 1024
S3Cache == NewLRUCache(2, 1024)

S3Keys == 1..5

S3Buffers == {Buf("x", 100), Buf("x", 200), Buf("x", 400), Buf("x", 900)}

\* the scenario: k1, k2, k3 of 400 bytes, k4 of 900 bytes, k5 of 200 bytes
S3Script == <<400, 400, 400, 900, 200>>

Follows(k, d) ==
  IF script >= 0 /\ script < Len(S3Script) /\ k = script + 1 /\ d.length = S3Script[script + 1]
  THEN script + 1
  ELSE -1

InitS3 ==
  /\ fileCache = S3Cache
  /\ lastOp = Op("new", 0, NoData, NoData, <<>>)
  /\ recency = <<>>
  /\ opCount = 0
  /\ nextFill = 0
  /\ script = 0
  /\ NoClient
  /\ NoTools

S3Set(k, d) ==
  /\ DoSet(k, d)
  /\ script' = Follows(k, d)
  /\ UNCHANGED <<opCount, nextFill, client, tools, listedFiles, alerts, reads, openFds>>

S3Get(k) ==
  /\ opCount < MaxProbes
  /\ DoGet(k)
  /\ opCount' = opCount + 1
  /\ script' = -1
  /\ UNCHANGED <<nextFill, client, tools, listedFiles, alerts, reads, openFds>>

NextS3 ==
  \/ \E k \in S3Keys, d \in S3Buffers : S3Set(k, d)
  \/ \E k \in S3Keys : S3Get(k)

SpecS3 == InitS3 /\ [][NextS3]_vars

(***************************************************************************)
(* Paths.  A path is a sequence of tokens: the separators "/" and "\" and   *)
(* the names between them.  A name stands for its spelling: "U+C0AFC0FA.bmp"*)
(* is the name of code points U+00C0 U+00AF U+00C0 U+00FA (CP949 bytes read *)
(* as Latin-1), "U+C720C800.bmp" the Hangul name those bytes encode.        *)
(***************************************************************************)
NoPath == <<>>

MojiName == "U+C0AFC0FA.bmp"

MojiNameLower == "U+E0AFE0FA.bmp"

KoreanName == "U+C720C800.bmp"

KoreanNameUpper == "U+C720C800.BMP"

\* String.prototype.toLowerCase on one name
LowerName(t) ==
  CASE t = "DATA" -> "data"
    [] t = "FOO.TXT" -> "foo.txt"
    [] t = "Foo.txt" -> "foo.txt"
    [] t = KoreanNameUpper -> KoreanName
    [] t = MojiName -> MojiNameLower
    [] OTHER -> t

ToLowerCase(p) == [i \in 1..Len(p) |-> LowerName(p[i])]

\* .replace(/\\/g, '/')
BackslashToSlash(p) == [i \in 1..Len(p) |-> IF p[i] = "\\" THEN "/" ELSE p[i]]

\* .replace(/\//g, '\\')
SlashToBackslash(p) == [i \in 1..Len(p) |-> IF p[i] = "/" THEN "\\" ELSE p[i]]

\* a mutant: the case of the letters is kept
NormalizedKeepCase(p) == BackslashToSlash(p)

\* file.toLowerCase().replace(/\\/g, '/')
Normalized(p) == BackslashToSlash(ToLowerCase(p))

\* file.toLowerCase().replace(/\//g, '\\')
NormalizedBackslash(p) == SlashToBackslash(ToLowerCase(p))

\* isMojibake of the archive library: does the string hold CP949 bytes read as Latin-1
IsMojibake(p) == \E i \in 1..Len(p) : p[i] \in {MojiName, MojiNameLower}

\* fixMojibake of the archive library: the code points as bytes, decoded as CP949
\* (the lower-cased bytes E0 AF E0 FA decode to some other name)
FixMojibakeName(t) ==
  CASE t = MojiName -> KoreanName
    [] t = MojiNameLower -> "cp949(E0AFE0FA).bmp"
    [] OTHER -> t

FixMojibake(p) == [i \in 1..Len(p) |-> FixMojibakeName(p[i])]

\* hasC1Controls: no name of the model holds a code point in U+0080..U+009F
HasC1Controls(p) == FALSE

FooBack == <<"data", "\\", "foo.txt">>

FooUpper == <<"DATA", "/", "FOO.TXT">>

MojiBack == <<"data", "\\", MojiName>>

KoreanBack == <<"data", "\\", KoreanName>>

KoreanSlash == <<"data", "/", KoreanName>>

AliasSlash == <<"data", "/", "user.bmp">>

(***************************************************************************)
(* class Grf (controllers/grfController.js): an archive once loaded lists   *)
(* the paths of its table and extracts the content stored under a raw path. *)
(***************************************************************************)
File(p, d) == [path |-> p, data |-> d]

GrfNames == {"a.grf", "b.grf"}

\* the archives that may lie in the resources directory
ResourceSets ==
  { [g \in GrfNames |->
       IF g = "a.grf"
       THEN <<File(FooBack, Buf("a1", 3)), File(FooUpper, Buf("a2", 4)), File(MojiBack, Buf("a3", 5))>>
       ELSE <<File(FooUpper, Buf("b1", 6)), File(KoreanBack, Buf("b2", 7))>>],
    [g \in GrfNames |->
       IF g = "a.grf"
       THEN <<File(FooUpper, Buf("a1", 3)), File(MojiBack, Buf("a2", 4))>>
       ELSE <<File(FooBack, Buf("b1", 5)), File(FooUpper, Buf("b2", 6)), File(KoreanBack, Buf("b3", 7))>>] }

\* new Grf(path) and load()
GrfLoad(name) == [file |-> name, files |-> resources[name]]

\* listFiles()
GrfListFiles(grf) == [i \in 1..Len(grf.files) |-> grf.files[i].path]

\* getFile(path): the content stored under exactly this raw path, or null
GrfGetFile(grf, p) ==
  IF \E i \in 1..Len(grf.files) : grf.files[i].path = p
  THEN grf.files[CHOOSE i \in 1..Len(grf.files) : grf.files[i].path = p].data
  ELSE NoData

(***************************************************************************)
(* DATA.INI.  A line is a section header, a key=value pair or a comment.    *)
(***************************************************************************)
Line(kind, key, val) == [kind |-> kind, key |-> key, val |-> val]

SectionLine(name) == Line("section", name, "")

ParamLine(key, val) == Line("param", key, val)

IniKeys == {"0", "1"}

NaN == -1

\* parseInt(key, 10)
ParseInt(key) ==
  CASE key = "0" -> 0
    [] key = "1" -> 1
    [] key = "2" -> 2
    [] OTHER -> NaN

\* a JS array is the function from its filled indices to their elements
EmptyArray == <<>>

\* array[key] = val: an element when key is an array index, else a plain property
ArrayPut(a, key, val) ==
  IF key \in Nat
  THEN [i \in (DOMAIN a) \cup {key} |-> IF i = key THEN val ELSE a[i]]
  ELSE a

ArrayLength(a) == IF DOMAIN a = {} THEN 0 ELSE (CHOOSE m \in DOMAIN a : \A i \in DOMAIN a : i <= m) + 1

\* array.filter(Boolean): the filled, truthy elements by ascending index
RECURSIVE FilterFrom(_, _)
FilterFrom(a, i) ==
  IF i >= ArrayLength(a) THEN <<>>
  ELSE IF i \in DOMAIN a /\ a[i] # "" THEN <<a[i]>> \o FilterFrom(a, i + 1)
  ELSE FilterFrom(a, i + 1)

FilterBoolean(a) == FilterFrom(a, 0)

\* the body of lines.forEach in parseIni; st is [section, hasData, data]
ParseIniLine(st, line) ==
  CASE line.kind = "comment" /\ line.key = ";" -> st
    [] line.kind = "param" ->
         IF st.section = "data"
         THEN [st EXCEPT !.data = ArrayPut(@, ParseInt(line.key), line.val)]
         ELSE st
    [] line.kind = "section" ->
         LET section == IF line.key \in {"data", "Data", "DATA"} THEN "data" ELSE line.key
         IN [st EXCEPT !.section = section,
                       !.hasData = @ \/ section = "data"]
    [] OTHER -> st

RECURSIVE ParseIniLines(_, _)
ParseIniLines(st, lines) ==
  IF lines = <<>> THEN st ELSE ParseIniLines(ParseIniLine(st, Head(lines)), Tail(lines))

\* parseIni(data): the [data] array of the result, and whether there is one
ParseIni(lines) ==
  ParseIniLines([section |-> "", hasData |-> FALSE, data |-> EmptyArray], lines)

(***************************************************************************)
(* tools/convert-encoding.mjs: the paths object of path-mapping.json.  A JS *)
(* object is the sequence of its [key, value] pairs in insertion order.     *)
(***************************************************************************)
ObjectPut(o, k, v) ==
  IF MapHas(o, k)
  THEN [i \in 1..Len(o) |-> IF o[i].key = k THEN [key |-> k, value |-> v] ELSE o[i]]
  ELSE Append(o, [key |-> k, value |-> v])

\* paths[k], undefined as NoPath
ObjectGet(o, k) == IF MapHas(o, k) THEN MapGet(o, k).value ELSE NoPath

\* value.trim().toLowerCase().endsWith(".grf")
EndsWithGrf(val) == val \in {"a.grf", "b.grf", "c.grf"}

\* parseDataINI(content): the values of the [data] section, in line order
RECURSIVE ParseDataINI(_, _)
ParseDataINI(lines, inDataSection) ==
  IF lines = <<>> THEN <<>>
  ELSE LET line == Head(lines) IN
       CASE line.kind = "comment" -> ParseDataINI(Tail(lines), inDataSection)
         [] line.kind = "section" -> ParseDataINI(Tail(lines), line.key \in {"data", "Data", "DATA"})
         [] line.kind = "param" /\ inDataSection /\ EndsWithGrf(line.val) ->
              <<line.val>> \o ParseDataINI(Tail(lines), inDataSection)
         [] OTHER -> ParseDataINI(Tail(lines), inDataSection)

\* the body of "for (const filename of allFiles)"
MapFilename(paths, s) ==
  IF IsMojibake(s) \/ HasC1Controls(s)
  THEN LET fixed == IF IsMojibake(s) THEN FixMojibake(s) ELSE s
           normalizedOriginal == ToLowerCase(BackslashToSlash(s))
           normalizedFixed == ToLowerCase(BackslashToSlash(fixed))
           stored == ObjectPut(paths, s, fixed)
       IN IF fixed = s THEN paths
          ELSE IF normalizedOriginal # s THEN ObjectPut(stored, normalizedOriginal, normalizedFixed)
          ELSE stored
  ELSE paths

RECURSIVE MapFilenames(_, _)
MapFilenames(paths, files) ==
  IF files = <<>> THEN paths ELSE MapFilenames(MapFilename(paths, Head(files)), Tail(files))

\* the body of "for (const grfFile of grfFiles)"
RECURSIVE MapGrfFiles(_, _)
MapGrfFiles(paths, grfFiles) ==
  IF grfFiles = <<>> THEN paths
  ELSE IF Head(grfFiles) \notin DOMAIN resources THEN MapGrfFiles(paths, Tail(grfFiles))
  ELSE MapGrfFiles(MapFilenames(paths, GrfListFiles(GrfLoad(Head(grfFiles)))), Tail(grfFiles))

\* main(): mapping.paths as written to path-mapping.json
ConvertEncoding(lines) == MapGrfFiles(<<>>, ParseDataINI(lines, FALSE))

(***************************************************************************)
(* Client.buildFileIndex.  An index value is [grfIndex, originalPath,       *)
(* mappedFrom]; mappedFrom is NoPath where the JS object has no such field. *)
(***************************************************************************)
NoEntry == [grfIndex |-> -1, originalPath |-> NoPath, mappedFrom |-> NoPath]

Entry(i, file) == [grfIndex |-> i, originalPath |-> file, mappedFrom |-> NoPath]

\* fileIndex.get(key), undefined as NoEntry
IndexGet(idx, key) == IF MapHas(idx, key) THEN MapGet(idx, key).entry ELSE NoEntry

\* a mutant: a later file replaces the entry of its key
IndexAddLastWins(idx, key, entry) ==
  Append(MapDelete(idx, key), [key |-> key, entry |-> entry])

\* if (!fileIndex.has(key)) fileIndex.set(key, entry)
IndexAdd(idx, key, entry) ==
  IF MapHas(idx, key) THEN idx ELSE Append(idx, [key |-> key, entry |-> entry])

\* the body of "for (const file of files)"
IndexFile(idx, i, file) ==
  IndexAdd(IndexAdd(idx, Normalized(file), Entry(i, file)),
           NormalizedBackslash(file), Entry(i, file))

RECURSIVE IndexFiles(_, _, _)
IndexFiles(idx, i, files) ==
  IF files = <<>> THEN idx ELSE IndexFiles(IndexFile(idx, i, Head(files)), i, Tail(files))

\* the loop over this.grfs, from index i on
RECURSIVE IndexGrfs(_, _, _)
IndexGrfs(idx, gs, i) ==
  IF i >= Len(gs) THEN idx
  ELSE IndexGrfs(IndexFiles(idx, i, GrfListFiles(gs[i + 1])), gs, i + 1)

\* a mutant: the entry is read as [grfPath, koreanPath]
MergeMappingReversed(idx, grfPath, koreanPath) ==
  IF MapHas(idx, Normalized(grfPath))
  THEN IndexAdd(idx, Normalized(koreanPath),
                [IndexGet(idx, Normalized(grfPath)) EXCEPT !.mappedFrom = koreanPath])
  ELSE idx

\* the body of "for (const [koreanPath, grfPath] of Object.entries(pathMapping.paths))"
MergeMapping(idx, koreanPath, grfPath) ==
  LET normalizedKorean == Normalized(koreanPath)
      normalizedGrf == Normalized(grfPath)
  IN IF MapHas(idx, normalizedGrf)
     THEN IndexAdd(idx, normalizedKorean,
                   [IndexGet(idx, normalizedGrf) EXCEPT !.mappedFrom = koreanPath])
     ELSE idx

RECURSIVE MergeMappings(_, _)
MergeMappings(idx, paths) ==
  IF paths = <<>> THEN idx
  ELSE MergeMappings(MergeMapping(idx, Head(paths).key, Head(paths).value), Tail(paths))

\* buildFileIndex(): the Map it leaves in fileIndex
BuildFileIndex(gs, pm) ==
  MergeMappings(IndexGrfs(<<>>, gs, 0), IF pm.loaded THEN pm.paths ELSE <<>>)

(***************************************************************************)
(* class StartupValidator (src/validators/startupValidator.js).  An archive *)
(* file is [size, signature, encryption, tableOffset, seed, nFiles,         *)
(* version, table, loads]: its length, the fields of its 46-byte header,    *)
(* the file table found at tableOffset + 46, and whether the archive        *)
(* library loads it.  Bytes are numbers in 0..255.                          *)
(***************************************************************************)
Min(a, b) == IF a < b THEN a ELSE b

Max(a, b) == IF a > b THEN a ELSE b

\* the char codes of "Master of Magic"
MasterOfMagic == <<77, 97, 115, 116, 101, 114, 32, 111, 102, 32, 77, 97, 103, 105, 99>>

\* _trimNullTerminatedAscii(buf): the bytes before the first 0x00, each decoded by
\* toString("ascii"), which unsets the highest bit of the byte
TrimNullTerminatedAscii(buf) ==
  LET nul == {i \in 1..Len(buf) : buf[i] = 0}
      n == IF nul = {} THEN Len(buf) ELSE (CHOOSE i \in nul : \A j \in nul : i <= j) - 1
  IN [i \in 1..n |-> buf[i] % 128]

HeaderRefused(reason) ==
  [ok |-> FALSE, reason |-> reason, tableOffset |-> 0, seed |-> 0, nFiles |-> 0,
   fileCount |-> 0, version |-> 0]

\* _readGrfHeader46(fd)
ReadGrfHeader46(file) ==
  IF Min(file.size, 46) < 46 THEN HeaderRefused("Header too small (<46 bytes)")
  ELSE IF TrimNullTerminatedAscii(file.signature) # MasterOfMagic
  THEN HeaderRefused("Invalid signature")
  ELSE [ok |-> TRUE, reason |-> "", tableOffset |-> file.tableOffset, seed |-> file.seed,
        nFiles |-> file.nFiles, fileCount |-> Max(file.nFiles - file.seed - 7, 0),
        version |-> file.version]

MaxUncompressed == 512 * 1024 * 1024

TableRefused(reason) == [ok |-> FALSE, reason |-> reason, data |-> <<>>]

\* _inflateFileTable(fd, fileTablePos); the table of the file is [headerLength,
\* compressedSize, uncompressedSize, available, inflates, data]
InflateFileTable(table) ==
  IF table.headerLength < 8 THEN TableRefused("File table header too small (<8 bytes)")
  ELSE IF table.compressedSize = 0 \/ table.uncompressedSize = 0
  THEN TableRefused("Invalid file table sizes (0)")
  ELSE IF table.uncompressedSize > MaxUncompressed
  THEN TableRefused("Uncompressed file table too large")
  ELSE IF Min(table.available, table.compressedSize) # table.compressedSize
  THEN TableRefused("Failed reading compressed file table bytes")
  ELSE IF ~table.inflates THEN TableRefused("zlib inflate failed")
  ELSE [ok |-> TRUE, reason |-> "", data |-> table.data]

\* a number above every length and offset the comparisons of the scan meet
TooBig == 2147483647

\* tableBuf.readUInt32LE(p) >>> 0, p counted from 0; a value of 2^31 or more is
\* read as TooBig
ReadUInt32LE(buf, p) ==
  IF buf[p + 4] >= 128 THEN TooBig
  ELSE buf[p + 1] + 256 * buf[p + 2] + 65536 * buf[p + 3] + 16777216 * buf[p + 4]

\* tableBuf.readBigUInt64LE(p) as a number; a value of 2^31 or more is read as TooBig
ReadBigUInt64LE(buf, p) ==
  IF \E k \in 5..8 : buf[p + k] # 0 THEN TooBig ELSE ReadUInt32LE(buf, p)

Continuation(b) == b >= 128 /\ b <= 191

\* is bytes[i..] well-formed UTF-8 (utf8Decoder.decode with fatal: true)
RECURSIVE Utf8From(_, _)
Utf8From(bytes, i) ==
  IF i > Len(bytes) THEN TRUE
  ELSE LET b == bytes[i]
           has(n) == i + n <= Len(bytes) /\ \A k \in 1..n : Continuation(bytes[i + k])
       IN IF b < 128 THEN Utf8From(bytes, i + 1)
          ELSE IF b >= 194 /\ b <= 223 THEN has(1) /\ Utf8From(bytes, i + 2)
          ELSE IF b >= 224 /\ b <= 239
          THEN /\ has(2)
               /\ (b = 224 => bytes[i + 1] >= 160)
               /\ (b = 237 => bytes[i + 1] <= 159)
               /\ Utf8From(bytes, i + 3)
          ELSE IF b >= 240 /\ b <= 244
          THEN /\ has(3)
               /\ (b = 240 => bytes[i + 1] >= 144)
               /\ (b = 244 => bytes[i + 1] <= 143)
               /\ Utf8From(bytes, i + 4)
          ELSE FALSE

\* isUtf8(bytes)
IsUtf8(bytes) == (\A i \in 1..Len(bytes) : bytes[i] < 128) \/ Utf8From(bytes, 1)

NoScan == [inspected |-> 0, invalidUtf8Count |-> 0, parseErrors |-> 0, offsetOutOfRange |-> 0]

\* the while loop "end < tableBuf.length && tableBuf[end] !== 0" started at p
RECURSIVE IndexOfNul(_, _)
IndexOfNul(tableBuf, end) ==
  IF end < Len(tableBuf) /\ tableBuf[end + 1] # 0 THEN IndexOfNul(tableBuf, end + 1) ELSE end

\* offsetVal < 0 || offsetVal >= fileSize, else offsetVal + compAligned > fileSize, under
\* fileSize > 0
OutOfRange(fileSize, offsetVal, compAligned) ==
  /\ fileSize > 0
  /\ \/ offsetVal < 0
     \/ offsetVal >= fileSize
     \/ compAligned > fileSize - offsetVal

\* the counters after an entry whose flags mark a file
CountFile(acc, outOfRange, validUtf8) ==
  [acc EXCEPT !.inspected = @ + 1,
              !.offsetOutOfRange = IF outOfRange THEN @ + 1 ELSE @,
              !.invalidUtf8Count = IF validUtf8 THEN @ ELSE @ + 1]

\* the counters after the entry whose metadata starts at q
CountEntry(tableBuf, nameBytes, q, offsetSize, fileSize, acc) ==
  IF tableBuf[q + 12 + 1] % 2 = 0 THEN acc
  ELSE CountFile(acc,
                 OutOfRange(fileSize,
                            IF offsetSize = 4 THEN ReadUInt32LE(tableBuf, q + 13)
                            ELSE ReadBigUInt64LE(tableBuf, q + 13),
                            ReadUInt32LE(tableBuf, q + 4)),
                 IsUtf8(nameBytes))

BrokenEntry(acc) == [acc EXCEPT !.parseErrors = @ + 1]

\* the for loop of _scanFileTableNames from entry i on, p the position in tableBuf
RECURSIVE ScanEntries(_, _, _, _, _, _, _)
RECURSIVE ScanEntry(_, _, _, _, _, _, _, _)
\* the body of the loop, end the position of the 0x00 that closes the name
ScanEntry(tableBuf, i, maxI, p, end, offsetSize, fileSize, acc) ==
  IF end >= Len(tableBuf) THEN BrokenEntry(acc)
  ELSE IF (end + 1) + (4 + 4 + 4 + 1 + offsetSize) > Len(tableBuf) THEN BrokenEntry(acc)
  ELSE ScanEntries(tableBuf, i + 1, maxI, (end + 1) + (4 + 4 + 4 + 1 + offsetSize),
                   offsetSize, fileSize,
                   CountEntry(tableBuf, SubSeq(tableBuf, p + 1, end), end + 1, offsetSize,
                              fileSize, acc))

ScanEntries(tableBuf, i, maxI, p, offsetSize, fileSize, acc) ==
  IF i >= maxI THEN acc
  ELSE IF p >= Len(tableBuf) THEN BrokenEntry(acc)
  ELSE ScanEntry(tableBuf, i, maxI, p, IndexOfNul(tableBuf, p), offsetSize, fileSize, acc)

\* _scanFileTableNames(tableBuf, fileCount, offsetSize, fileSize, scanLimit)
ScanFileTableNames(tableBuf, fileCount, offsetSize, fileSize, scanLimit) ==
  ScanEntries(tableBuf, 0, IF scanLimit > 0 THEN Min(fileCount, scanLimit) ELSE fileCount,
              0, offsetSize, fileSize, NoScan)

\* GRF_PATH_SCAN_LIMIT unset: the whole table is scanned
ScanLimit == 0

\* a mutant: the comparator stops at the parse errors
SortsBeforeByErrors(a, b) ==
  IF b.inspected # a.inspected THEN b.inspected - a.inspected < 0
  ELSE a.parseErrors - b.parseErrors < 0

\* the comparator of scans.sort: does scan a come strictly before scan b
SortsBefore(a, b) ==
  IF b.inspected # a.inspected THEN b.inspected - a.inspected < 0
  ELSE IF a.parseErrors # b.parseErrors THEN a.parseErrors - b.parseErrors < 0
  ELSE a.offsetOutOfRange - b.offsetOutOfRange < 0

\* scans[0] after scans.sort(...): the sort is stable, offset32 was pushed first
BestScan(scans) ==
  IF Len(scans) = 2 /\ SortsBefore(scans[2], scans[1]) THEN scans[2] ELSE scans[1]

Scan(layout, offsetSize, counts) ==
  [layout |-> layout, offsetSize |-> offsetSize, inspected |-> counts.inspected,
   invalidUtf8Count |-> counts.invalidUtf8Count, parseErrors |-> counts.parseErrors,
   offsetOutOfRange |-> counts.offsetOutOfRange]

\* the scans array of _analyzeGrfPathEncoding
Scans(data, headerInfo, fileSize) ==
  <<Scan("offset32", 4, ScanFileTableNames(data, headerInfo.fileCount, 4, fileSize, ScanLimit))>>
  \o (IF headerInfo.version = 768
      THEN <<Scan("offset64", 8,
                  ScanFileTableNames(data, headerInfo.fileCount, 8, fileSize, ScanLimit))>>
      ELSE <<>>)

NotAnalyzed(reason) ==
  [ok |-> FALSE, encoding |-> "unknown", layout |-> "none", reason |-> reason,
   layoutTried |-> <<>>, best |-> Scan("none", 0, NoScan)]

\* scans after scans.sort(...)
SortScans(scans) ==
  IF Len(scans) = 2 /\ SortsBefore(scans[2], scans[1]) THEN <<scans[2], scans[1]>> ELSE scans

\* layoutTried: scans.map(s => s.layout), of the sorted scans
LayoutTried(scans) == [i \in 1..Len(scans) |-> SortScans(scans)[i].layout]

\* the result of _analyzeGrfPathEncoding once the scans are sorted; layoutTried is
\* reported only when no entry was inspected
PathEncoding(best, tried) ==
  IF best.inspected = 0
  THEN [ok |-> TRUE, encoding |-> "unknown", layout |-> "none",
        reason |-> "No file entries inspected", layoutTried |-> tried,
        best |-> Scan("none", 0, NoScan)]
  ELSE [ok |-> TRUE,
        encoding |-> IF best.invalidUtf8Count > 0 THEN "iso-8859-1" ELSE "utf-8",
        layout |-> best.layout, reason |-> "", layoutTried |-> <<>>, best |-> best]

\* _analyzeGrfPathEncoding from the inflated table on
AnalyzeTable(table, headerInfo, fileSize) ==
  IF ~table.ok THEN NotAnalyzed(table.reason)
  ELSE PathEncoding(BestScan(Scans(table.data, headerInfo, fileSize)),
                    LayoutTried(Scans(table.data, headerInfo, fileSize)))

\* _analyzeGrfPathEncoding(fd, headerInfo, fileSize)
AnalyzeGrfPathEncoding(file, headerInfo, fileSize) ==
  AnalyzeTable(InflateFileTable(file.table), headerInfo, fileSize)

\* validateGrfFormat from the file table on: the table, then GrfNode.load()
ValidateTable(file, headerInfo, pathEncoding) ==
  IF ~pathEncoding.ok
  THEN [valid |-> FALSE, version |-> headerInfo.version,
        reason |-> "Failed to read/parse compacted file table", pathEncoding |-> pathEncoding]
  ELSE IF file.loads
  THEN [valid |-> TRUE, version |-> headerInfo.version,
        reason |-> "GRF loaded successfully by the library", pathEncoding |-> pathEncoding]
  ELSE [valid |-> FALSE, version |-> headerInfo.version,
        reason |-> "Library failed to load", pathEncoding |-> pathEncoding]

\* validateGrfFormat from the header on
ValidateHeader(file, headerInfo) ==
  IF ~headerInfo.ok
  THEN [valid |-> FALSE, version |-> -1, reason |-> headerInfo.reason,
        pathEncoding |-> NotAnalyzed("Skipped (invalid header)")]
  ELSE IF headerInfo.version # 512 /\ headerInfo.version # 768
  THEN [valid |-> FALSE, version |-> headerInfo.version, reason |-> "Version is not supported",
        pathEncoding |-> NotAnalyzed("Skipped (unsupported version)")]
  ELSE ValidateTable(file, headerInfo, AnalyzeGrfPathEncoding(file, headerInfo, file.size))

\* validateGrfFormat(grfPath) of a file that exists
ValidateGrfFormat(file) == ValidateHeader(file, ReadGrfHeader46(file))

\* the descriptors that validateGrfFormat(grfPath) has opened and not closed when it
\* returns: fd is opened first; the returns for a refused header, an unsupported
\* version and an unreadable file table close nothing; testFd is opened before the
\* load, and both are closed after the load, whether it resolves, rejects or times out
FormatFdsLeft(file, headerInfo) ==
  IF ~headerInfo.ok THEN {"fd"}
  ELSE IF headerInfo.version # 512 /\ headerInfo.version # 768 THEN {"fd"}
  ELSE IF ~AnalyzeGrfPathEncoding(file, headerInfo, file.size).ok THEN {"fd"}
  ELSE ({"fd", "testFd"} \ {"testFd"}) \ {"fd"}

\* what validateGrfs leaves open for grfFile: a file that does not exist is not opened
FdsLeftOpen(grfFile) ==
  IF grfFile \notin DOMAIN archives THEN {}
  ELSE {[file |-> grfFile, fd |-> d] :
          d \in FormatFdsLeft(archives[grfFile], ReadGrfHeader46(archives[grfFile]))}

\* StartupValidator.parseDataINI(content)
ValidatorParseDataINI(lines) == ParseDataINI(lines, FALSE)

\* the entry pushed to grfResults for a file that exists, v its validateGrfFormat result
GrfResult(grfFile, v) ==
  [file |-> grfFile, exists |-> TRUE, valid |-> v.valid, reason |-> v.reason]

\* the body of "for (const grfFile of grfFiles)" in validateGrfs: the entry pushed to
\* grfResults
ValidateGrf(grfFile) ==
  IF grfFile \notin DOMAIN archives
  THEN [file |-> grfFile, exists |-> FALSE, valid |-> FALSE, reason |-> "GRF not found"]
  ELSE GrfResult(grfFile, ValidateGrfFormat(archives[grfFile]))

\* a mutant: an archive that is not valid is an error only if no archive is valid
GrfErrorsIfNoneUsable(grfResults) ==
  IF \E i \in 1..Len(grfResults) : grfResults[i].valid THEN <<>>
  ELSE [i \in 1..Len(grfResults) |-> grfResults[i].reason]

\* the reasons of the entries that are not valid, one addError each
RECURSIVE GrfErrors(_)
GrfErrors(grfResults) ==
  IF grfResults = <<>> THEN <<>>
  ELSE (IF Head(grfResults).valid THEN <<>> ELSE <<Head(grfResults).reason>>)
       \o GrfErrors(Tail(grfResults))

\* validationResults.grfs and the errors added, grfResults the entries of the files
GrfsResult(grfResults) ==
  IF Len(grfResults) = 0
  THEN [valid |-> FALSE, files |-> <<>>, count |-> 0,
        errors |-> <<"No GRF files found in resources/DATA.INI!">>]
  ELSE [valid |-> (\A i \in 1..Len(grfResults) : grfResults[i].valid), files |-> grfResults,
        count |-> Len(grfResults), errors |-> GrfErrors(grfResults)]

RECURSIVE ValidateEach(_)
ValidateEach(names) ==
  IF names = <<>> THEN <<>> ELSE <<ValidateGrf(Head(names))>> \o ValidateEach(Tail(names))

\* validateGrfs(): validationResults.grfs and the errors added
ValidateGrfs(lines) == GrfsResult(ValidateEach(ValidatorParseDataINI(lines)))

\* getResults(): success is errors.length === 0
GetResults(g) == [success |-> Len(g.errors) = 0, errors |-> g.errors, grfs |-> g]

\* validateAll() and getResults() on a machine whose Node, dependencies, required
\* files and environment pass
ValidateAll(lines) == GetResults(ValidateGrfs(lines))

\* n as 4 bytes, least significant first
Bytes32(n) == <<n % 256, (n \div 256) % 256, (n \div 65536) % 256, (n \div 16777216) % 256>>

\* one entry of a file table: name, 0x00, compSize, compAligned, realSize, flags, offset
TableEntry(name, compAligned, flags, offset, offsetSize) ==
  name \o <<0>> \o Bytes32(compAligned) \o Bytes32(compAligned) \o Bytes32(compAligned)
  \o <<flags>> \o Bytes32(offset) \o (IF offsetSize = 8 THEN Bytes32(0) ELSE <<>>)

\* a file table that is read and inflated to data
Table(data) ==
  [headerLength |-> 8, compressedSize |-> Len(data), uncompressedSize |-> Len(data),
   available |-> Len(data), inflates |-> TRUE, data |-> data]

NoEncryption == [i \in 1..14 |-> 0]

GrfFile(size, signature, encryption, version, fileCount, table, loads) ==
  [size |-> size, signature |-> signature, encryption |-> encryption, tableOffset |-> 64,
   seed |-> 0, nFiles |-> fileCount + 7, version |-> version, table |-> table, loads |-> loads]

\* the char codes of "a.txt"
NameA == <<97, 46, 116, 120, 116>>

\* a well-formed 0x200 archive of one file that the library loads
GoodFile ==
  GrfFile(200, MasterOfMagic \o <<0>>, NoEncryption, 512, 1,
          Table(TableEntry(NameA, 10, 1, 0, 4)), TRUE)

(***************************************************************************)
(* SpecFormat: validateGrfFormat of one archive file, whose header fields  *)
(* and file table are drawn from the cases below.                          *)
(***************************************************************************)
\* one entry of a file table with 8-byte offsets
TableEntry64(name, compSize, compAligned, realSize, flags, offset) ==
  name \o <<0>> \o Bytes32(compSize) \o Bytes32(compAligned) \o Bytes32(realSize)
  \o <<flags>> \o Bytes32(offset) \o Bytes32(0)

\* 16 signature bytes: the signature; one that differs in a letter; one whose first
\* byte has its highest bit set; one without the closing 0x00; one cut short
Signatures ==
  { MasterOfMagic \o <<0>>,
    SubSeq(MasterOfMagic, 1, 14) \o <<107, 0>>,
    <<77 + 128>> \o Tail(MasterOfMagic) \o <<0>>,
    MasterOfMagic \o <<33>>,
    SubSeq(MasterOfMagic, 1, 6) \o [i \in 1..10 |-> 0] }

\* the 14 bytes at offsets 16..29: all zero, or a key
Encryptions == {NoEncryption, [i \in 1..14 |-> IF i = 3 THEN 165 ELSE 0]}

\* 0x102, 0x103, 0x200, 0x300
Versions == {258, 259, 512, 768}

\* the char codes of "bbbbbbbbba"
NameB == <<98, 98, 98, 98, 98, 98, 98, 98, 98, 97>>

\* the char codes of "c"
NameC == <<99>>

\* a table of three files written with 8-byte offsets, in an archive of 20,000,000
\* bytes: read with 4-byte offsets, its second and third entries start inside the
\* metadata and have offsets out of range
TableS4 ==
  TableEntry64(NameA, 10, 10, 10, 1, 0)
  \o TableEntry64(NameB, 200000, 200000, 30000000, 1, 16777216)
  \o TableEntry64(NameC, 10, 10, 10, 1, 100)

\* a table of three files written with 4-byte offsets
Table32 ==
  TableEntry(NameA, 10, 1, 0, 4) \o TableEntry(NameB, 10, 1, 20, 4)
  \o TableEntry(NameC, 10, 1, 40, 4)

\* the file tables: [size of the archive, fileCount of the header, table]
FormatTables ==
  { [size |-> 200, fileCount |-> 1, table |-> Table(TableEntry(NameA, 10, 1, 0, 4))],
    [size |-> 20000000, fileCount |-> 3, table |-> Table(TableS4)],
    [size |-> 200, fileCount |-> 3, table |-> Table(Table32)],
    [size |-> 200, fileCount |-> 3, table |-> Table(SubSeq(Table32, 1, 30))],
    [size |-> 200, fileCount |-> 1, table |-> Table(TableEntry(NameA, 10, 1, 195, 4))],
    [size |-> 200, fileCount |-> 1, table |-> Table(TableEntry(NameA, 10, 0, 0, 4))],
    [size |-> 200, fileCount |-> 1, table |-> Table(TableEntry64(NameA, 10, 10, 10, 1, 0))],
    [size |-> 200, fileCount |-> 1,
     table |-> [Table(TableEntry(NameA, 10, 1, 0, 4)) EXCEPT !.inflates = FALSE]] }

FilesOf(t) ==
  {GrfFile(size, sig, enc, ver, t.fileCount, t.table, loads) :
     size \in {45, t.size}, sig \in Signatures, enc \in Encryptions, ver \in Versions,
     loads \in BOOLEAN}

\* the archive files: a header cut at 45 bytes or whole, with every signature, key,
\* version and table, loaded by the library or not
FormatFiles == UNION {FilesOf(t) : t \in FormatTables}

(***************************************************************************)
(* The client controller: module state, Client.init and Client.getFile.     *)
(***************************************************************************)
MaxFetches == 2      \* getFile calls in one run
MaxFiles == 2        \* paths of one archive in the start-up runs
MaxConcurrent == 3   \* getFile calls in one run of two concurrent callers

DefaultMaxMemoryMB == 256   \* the byte budget the client configures by default, in MB

MaxMissing == 1000   \* entries kept in Client.missingFiles

Slots == {1}

Idle == [pc |-> "idle", filePath |-> NoPath, built |-> FALSE, indexEntry |-> NoEntry,
         grf |-> <<>>, searched |-> <<>>, pathsToTry |-> <<>>, g |-> 0, t |-> 0]

\* the sequences without repetition of elements of S
RECURSIVE Arrangements(_)
Arrangements(S) ==
  {<<>>} \cup UNION {{<<x>> \o q : q \in Arrangements(S \ {x})} : x \in S}

\* the DATA.INI files: a [data] header and key=value lines that name each archive at
\* most once, under any keys
Manifests ==
  UNION {{<<SectionLine("data")>> \o [i \in 1..Len(q) |-> ParamLine(ks[i], q[i])] :
            ks \in [1..Len(q) -> IniKeys]} : q \in Arrangements(GrfNames)}

NoMapping == [loaded |-> FALSE, paths |-> <<>>]

Loaded(paths) == [loaded |-> TRUE, paths |-> paths]

\* a path-mapping.json written by hand: an alias of the Korean path, and the Korean
\* path to the archive path
HandWritten ==
  <<[key |-> AliasSlash, value |-> KoreanSlash], [key |-> KoreanSlash, value |-> MojiBack]>>

\* path-mapping.json: absent, generated by convert-encoding, or written by hand
PathMappings(lines) == {NoMapping, Loaded(ConvertEncoding(lines)), Loaded(HandWritten)}

\* the archives of the start-up runs: up to MaxFiles paths each, in any order
PathPool(g) ==
  IF g = "a.grf" THEN {FooBack, FooUpper, MojiBack} ELSE {FooBack, FooUpper, KoreanBack}

FileLists(g) ==
  {[n \in 1..Len(q) |-> File(q[n], Buf(g, n))] :
     q \in {a \in Arrangements(PathPool(g)) : Len(a) \in 1..MaxFiles}}

BootResourceSets ==
  {[g \in GrfNames |-> IF g = "a.grf" THEN x ELSE y] :
     x \in FileLists("a.grf"), y \in FileLists("b.grf")}

\* the paths clients ask for
RequestPaths ==
  { <<"data", "/", "foo.txt">>, <<"DATA", "\\", "FOO.TXT">>,
    KoreanSlash, <<"data", "/", MojiName>> }

\* the process once the controller module is loaded, with the archives of one of rs
InitWith(rs) ==
  /\ fileCache = NewLRUCache(DefaultMaxFiles, DefaultMaxMemoryMB * 1024 * 1024)
  /\ lastOp = Op("new", 0, NoData, NoData, <<>>)
  /\ recency = <<>>
  /\ opCount = 0
  /\ nextFill = 0
  /\ script = -1
  /\ resources \in rs
  /\ dataIni \in Manifests
  /\ pathMapping \in PathMappings(dataIni)
  /\ localFiles = <<>>
  /\ AutoExtract \in BOOLEAN
  /\ grfs = <<>>
  /\ fileIndex = <<>>
  /\ indexBuilt = FALSE
  /\ initPc = "idle"
  /\ requests = [s \in Slots |-> Idle]
  /\ immediates = <<>>
  /\ missingFiles = <<>>
  /\ missingFilesSet = {}
  /\ logQueue = <<>>
  /\ logFlushTimer = FALSE
  /\ missingFilesLog = <<>>
  /\ fetched = <<>>
  /\ listedFiles = <<>>
  /\ NoReads
  /\ openFds = {}
  /\ NoAlerts
  /\ archives = [g \in DOMAIN resources |-> GoodFile]
  /\ serverPc = "validating"
  /\ validation = <<>>
  /\ NoTools

Init == InitWith(ResourceSets)

\* Client.init() up to its await: DATA.INI is parsed; nothing to load ends the call
ClientInit ==
  /\ initPc = "idle"
  /\ LET data == ParseIni(dataIni)
     IN IF ~data.hasData \/ ArrayLength(data.data) = 0
        THEN initPc' = "done" /\ grfs' = <<>>
        ELSE initPc' = "loading" /\ grfs' = grfs
  /\ UNCHANGED <<fileCache, cacheLog, resources, dataIni, pathMapping, localFiles, AutoExtract,
                 fileIndex, indexBuilt, requests, immediates, missingFiles, missingFilesSet,
                 logQueue, logFlushTimer, missingFilesLog, fetched,
                 archives, serverPc, validation, tools, listedFiles, alerts, reads, openFds>>

\* dataIni.data.filter(Boolean).map(...): the archives in the order init loads them
LoadOrder(lines) == FilterBoolean(ParseIni(lines).data)

\* does "await grf.load()" of this archive resolve
GrfLoads(name) == name \in DOMAIN resources /\ archives[name].loads

\* Client.init() after Promise.all: this.grfs is assigned and the index is built; if
\* a load rejects, init rejects, and the rejection, which nothing handles, ends the
\* process or not, as the Node version has it
ClientInitLoaded ==
  /\ initPc = "loading"
  /\ serverPc # "exited"
  /\ IF \A i \in 1..Len(LoadOrder(dataIni)) : GrfLoads(LoadOrder(dataIni)[i])
     THEN LET loaded == [i \in 1..Len(LoadOrder(dataIni)) |-> GrfLoad(LoadOrder(dataIni)[i])]
          IN /\ grfs' = loaded
             /\ fileIndex' = BuildFileIndex(loaded, pathMapping)
             /\ indexBuilt' = TRUE
             /\ initPc' = "done"
             /\ UNCHANGED serverPc
     ELSE /\ initPc' = "failed"
          /\ serverPc' \in {serverPc, "exited"}
          /\ UNCHANGED <<grfs, fileIndex, indexBuilt>>
  /\ UNCHANGED <<fileCache, cacheLog, resources, dataIni, pathMapping, localFiles, AutoExtract,
                 requests, immediates, missingFiles, missingFilesSet,
                 logQueue, logFlushTimer, missingFilesLog, fetched,
                 archives, validation, tools, listedFiles, alerts, reads, openFds>>

\* startServer(): validateAll and printReport, then process.exit(1) or app.listen;
\* the routes module, and with it Client.init(), is required before startServer runs
StartServer ==
  /\ serverPc = "validating"
  /\ initPc # "idle"
  /\ validation' = ValidateAll(dataIni)
  /\ serverPc' = IF validation'.success THEN "listening" ELSE "exited"
  /\ openFds' = IF validation'.success
                THEN openFds \cup UNION {FdsLeftOpen(ValidatorParseDataINI(dataIni)[i]) :
                                           i \in 1..Len(ValidatorParseDataINI(dataIni))}
                ELSE {}
  /\ UNCHANGED <<fileCache, cacheLog, resources, dataIni, pathMapping, localFiles, AutoExtract,
                 grfs, fileIndex, indexBuilt, initPc, requests, immediates, missingFiles,
                 missingFilesSet, logQueue, logFlushTimer, missingFilesLog, fetched, archives, tools, listedFiles, alerts, reads>>


\* path.join(__dirname, '..', '..', filePath) below the server root: runs of "/" collapse
RECURSIVE LocalPath(_)
LocalPath(p) ==
  IF Len(p) < 2 THEN p
  ELSE IF p[1] = "/" /\ p[2] = "/" THEN LocalPath(Tail(p))
  ELSE <<p[1]>> \o LocalPath(Tail(p))

\* fileIndex.get(normalizedPath) || fileIndex.get(normalizedBackslash)
LookupIndex(idx, filePath) ==
  IF MapHas(idx, Normalized(filePath))
  THEN IndexGet(idx, Normalized(filePath))
  ELSE IndexGet(idx, NormalizedBackslash(filePath))

\* pathMapping.paths[grfFilePath] || pathMapping.paths[filePath]
MappedPath(pm, filePath) ==
  IF ~pm.loaded THEN NoPath
  ELSE IF MapHas(pm.paths, SlashToBackslash(filePath))
  THEN ObjectGet(pm.paths, SlashToBackslash(filePath))
  ELSE ObjectGet(pm.paths, filePath)

\* the indexEntry of getFile: the index, then "Try path mapping if not in index"
LookupEntry(idx, pm, filePath) ==
  IF LookupIndex(idx, filePath) # NoEntry THEN LookupIndex(idx, filePath)
  ELSE IF MappedPath(pm, filePath) # NoPath THEN IndexGet(idx, Normalized(MappedPath(pm, filePath)))
  ELSE NoEntry

InFlight == Cardinality({s \in DOMAIN requests : requests[s].pc # "idle"})

\* the getFile calls of one run: MaxFetches one at a time, MaxConcurrent of them where
\* two may be in flight together
FetchBudget == IF Cardinality(DOMAIN requests) > 1 THEN MaxConcurrent ELSE MaxFetches

\* getFile returns ret to its caller
Return(s, req, ret, via) ==
  /\ requests' = [requests EXCEPT ![s] = Idle]
  /\ fetched' = Append(fetched, [filePath |-> req.filePath, ret |-> ret, via |-> via,
                                 entry |-> req.indexEntry, built |-> req.built])

\* "if (fileContent)": the content is cached, extracted if AutoExtract, and returned
Serve(s, req, content, via) ==
  /\ fileCache' = LRUCacheSet(fileCache, ToLowerCase(req.filePath), content).c
  /\ immediates' = IF AutoExtract
                   THEN Append(immediates, [localPath |-> LocalPath(req.filePath), content |-> content])
                   ELSE immediates
  /\ Return(s, req, content, via)
  /\ UNCHANGED <<missingFiles, missingFilesSet, logQueue, logFlushTimer, lastNotificationTime, notifications>>

\* logMissingFile(requestedPath, grfPath, null) of a path not yet logged
LogEntry(requestedPath, grfPath) ==
  [requestedPath |-> requestedPath, grfPath |-> grfPath, mappedPath |-> NoPath]

NotificationCooldown == 60000

MinMissing == 10

\* a mutant: the cooldown is not looked at
ShouldNotifyNoCooldown(t, last, held) == ~(held < MinMissing)

\* checkNotification goes past its two returns
ShouldNotify(t, last, held) == ~(t - last < NotificationCooldown) /\ ~(held < MinMissing)

\* this.checkNotification() with held records in Client.missingFiles
CheckNotification(held) ==
  IF ShouldNotify(now, lastNotificationTime, held)
  THEN /\ lastNotificationTime' = now
       /\ notifications' = Append(notifications, [at |-> now, held |-> held])
  ELSE UNCHANGED <<lastNotificationTime, notifications>>

\* a mutant: the list is never shifted
PushMissingNoShift(list, logEntry) == Append(list, logEntry)

\* this.missingFiles.push(logEntry); if (this.missingFiles.length > 1000) shift()
PushMissing(list, logEntry) ==
  IF Len(list) + 1 > MaxMissing THEN Tail(Append(list, logEntry)) ELSE Append(list, logEntry)

\* a mutant: every miss is logged, also one of a path logged before
MissingNoDedup(s, req) ==
  /\ LET logEntry == LogEntry(req.filePath, SlashToBackslash(req.filePath))
     IN /\ missingFilesSet' = missingFilesSet \cup {req.filePath}
        /\ missingFiles' = PushMissing(missingFiles, logEntry)
        /\ logQueue' = Append(logQueue, logEntry)
        /\ logFlushTimer' = TRUE
        /\ CheckNotification(Len(PushMissing(missingFiles, logEntry)))
  /\ Return(s, req, NoData, "none")

\* logMissingFile(requestedPath, grfPath, null)
LogMissingFile(requestedPath, grfPath) ==
  IF requestedPath \in missingFilesSet
  THEN UNCHANGED <<missingFiles, missingFilesSet, logQueue, logFlushTimer, lastNotificationTime, notifications>>
  ELSE /\ missingFilesSet' = missingFilesSet \cup {requestedPath}
       /\ missingFiles' = PushMissing(missingFiles, LogEntry(requestedPath, grfPath))
       /\ logQueue' = Append(logQueue, LogEntry(requestedPath, grfPath))
       /\ logFlushTimer' = TRUE
       /\ CheckNotification(Len(PushMissing(missingFiles, LogEntry(requestedPath, grfPath))))

\* "Log missing file" and return null
Missing(s, req) ==
  /\ LogMissingFile(req.filePath, SlashToBackslash(req.filePath))
  /\ Return(s, req, NoData, "none")

\* a mutant: the sequential search is left out
SearchSkipped(s, req) == Missing(s, req)

\* "Fallback: sequential search": pathsToTry is built and the first archive is asked
Search(s, req) ==
  LET filePath == req.filePath
      mappedPath == MappedPath(pathMapping, filePath)
      pathsToTry == <<SlashToBackslash(filePath)>> \o
                    (IF mappedPath # NoPath THEN <<mappedPath>> ELSE <<>>)
  IN IF grfs = <<>>
     THEN Missing(s, req)
     ELSE /\ requests' = [requests EXCEPT ![s] =
                            [req EXCEPT !.pc = "search", !.searched = grfs,
                                        !.pathsToTry = pathsToTry, !.g = 1, !.t = 1]]
          /\ UNCHANGED <<fetched, missingFiles, missingFilesSet, logQueue, logFlushTimer, lastNotificationTime, notifications>>

\* getFile(filePath) from the call to its first await or to its return
GetFile(s, filePath) ==
  /\ serverPc = "listening"
  /\ requests[s].pc = "idle"
  /\ Len(fetched) + InFlight < FetchBudget
  /\ LET cacheKey == ToLowerCase(filePath)
         cached == LRUCacheGet(fileCache, cacheKey)
         localPath == LocalPath(filePath)
         indexEntry == LookupEntry(fileIndex, pathMapping, filePath)
         req == [Idle EXCEPT !.filePath = filePath, !.built = indexBuilt]
         found == [req EXCEPT !.indexEntry = indexEntry]
     IN IF cached.ret.isBuffer
        THEN /\ fileCache' = cached.c
             /\ Return(s, req, cached.ret, "cache")
             /\ UNCHANGED <<immediates, missingFiles, missingFilesSet, logQueue, logFlushTimer, lastNotificationTime, notifications>>
        ELSE IF localPath \in DOMAIN localFiles
        THEN /\ fileCache' = LRUCacheSet(cached.c, cacheKey, localFiles[localPath]).c
             /\ Return(s, req, localFiles[localPath], "local")
             /\ UNCHANGED <<immediates, missingFiles, missingFilesSet, logQueue, logFlushTimer, lastNotificationTime, notifications>>
        ELSE IF indexEntry # NoEntry /\ indexEntry.grfIndex < Len(grfs)
        THEN /\ fileCache' = cached.c
             /\ requests' = [requests EXCEPT ![s] =
                               [found EXCEPT !.pc = "index", !.grf = grfs[indexEntry.grfIndex + 1]]]
             /\ UNCHANGED <<fetched, immediates, missingFiles, missingFilesSet, logQueue, logFlushTimer, lastNotificationTime, notifications>>
        ELSE /\ fileCache' = cached.c
             /\ Search(s, found)
             /\ UNCHANGED immediates
  /\ UNCHANGED <<cacheLog, resources, dataIni, pathMapping, localFiles, AutoExtract, grfs,
                 fileIndex, indexBuilt, initPc, missingFilesLog,
                 archives, serverPc, validation, tools, listedFiles, now, reads, openFds>>

\* getFile after "await grf.getFile(indexEntry.originalPath)"
GetFileIndexed(s) ==
  /\ serverPc # "exited"
  /\ requests[s].pc = "index"
  /\ LET req == requests[s]
         fileContent == GrfGetFile(req.grf, req.indexEntry.originalPath)
     IN IF fileContent.isBuffer
        THEN Serve(s, req, fileContent,
                   IF LookupIndex(fileIndex, req.filePath) # NoEntry THEN "index" ELSE "mapping")
        ELSE /\ Search(s, req)
             /\ UNCHANGED <<fileCache, immediates>>
  /\ UNCHANGED <<cacheLog, resources, dataIni, pathMapping, localFiles, AutoExtract, grfs,
                 fileIndex, indexBuilt, initPc, missingFilesLog,
                 archives, serverPc, validation, tools, listedFiles, now, reads, openFds>>

\* getFile after "await grf.getFile(tryPath)" in the sequential search
GetFileSearched(s) ==
  /\ serverPc # "exited"
  /\ requests[s].pc = "search"
  /\ LET req == requests[s]
         fileContent == GrfGetFile(req.searched[req.g], req.pathsToTry[req.t])
     IN IF fileContent.isBuffer
        THEN Serve(s, req, fileContent, "search")
        ELSE IF req.t < Len(req.pathsToTry)
        THEN /\ requests' = [requests EXCEPT ![s] = [req EXCEPT !.t = req.t + 1]]
             /\ UNCHANGED <<fileCache, fetched, immediates, missingFiles, missingFilesSet,
                            logQueue, logFlushTimer, lastNotificationTime, notifications>>
        ELSE IF req.g < Len(req.searched)
        THEN /\ requests' = [requests EXCEPT ![s] = [req EXCEPT !.g = req.g + 1, !.t = 1]]
             /\ UNCHANGED <<fileCache, fetched, immediates, missingFiles, missingFilesSet,
                            logQueue, logFlushTimer, lastNotificationTime, notifications>>
        ELSE /\ Missing(s, req)
             /\ UNCHANGED <<fileCache, immediates>>
  /\ UNCHANGED <<cacheLog, resources, dataIni, pathMapping, localFiles, AutoExtract, grfs,
                 fileIndex, indexBuilt, initPc, missingFilesLog,
                 archives, serverPc, validation, tools, listedFiles, now, reads, openFds>>

\* the setImmediate callback of extractFile: fs.writeFileSync(localPath, content)
ExtractFile ==
  /\ serverPc # "exited"
  /\ immediates # <<>>
  /\ LET task == Head(immediates)
     IN localFiles' = [p \in (DOMAIN localFiles) \cup {task.localPath} |->
                         IF p = task.localPath THEN task.content ELSE localFiles[p]]
  /\ immediates' = Tail(immediates)
  /\ UNCHANGED <<fileCache, cacheLog, resources, dataIni, pathMapping, AutoExtract, grfs,
                 fileIndex, indexBuilt, initPc, requests, missingFiles, missingFilesSet,
                 logQueue, logFlushTimer, missingFilesLog, fetched,
                 archives, serverPc, validation, tools, listedFiles, alerts, reads, openFds>>

\* a mutant: the flush writes the first line of the queue and leaves the others
FlushLogQueueFirstLine ==
  /\ serverPc # "exited"
  /\ logFlushTimer
  /\ logFlushTimer' = FALSE
  /\ logQueue' = IF logQueue = <<>> THEN <<>> ELSE Tail(logQueue)
  /\ missingFilesLog' = IF logQueue = <<>> THEN missingFilesLog
                         ELSE Append(missingFilesLog, Head(logQueue))
  /\ UNCHANGED <<fileCache, cacheLog, resources, dataIni, pathMapping, localFiles, AutoExtract,
                 grfs, fileIndex, indexBuilt, initPc, requests, immediates, missingFiles,
                 missingFilesSet, fetched,
                 archives, serverPc, validation, tools, listedFiles, alerts, reads, openFds>>

\* flushLogQueue() when the timeout fires
FlushLogQueue ==
  /\ serverPc # "exited"
  /\ logFlushTimer
  /\ logFlushTimer' = FALSE
  /\ logQueue' = <<>>
  /\ missingFilesLog' = missingFilesLog \o logQueue
  /\ UNCHANGED <<fileCache, cacheLog, resources, dataIni, pathMapping, localFiles, AutoExtract,
                 grfs, fileIndex, indexBuilt, initPc, requests, immediates, missingFiles,
                 missingFilesSet, fetched,
                 archives, serverPc, validation, tools, listedFiles, alerts, reads, openFds>>

Next ==
  \/ ClientInit
  \/ ClientInitLoaded
  \/ StartServer
  \/ \E s \in Slots, filePath \in RequestPaths : GetFile(s, filePath)
  \/ \E s \in Slots : GetFileIndexed(s)
  \/ \E s \in Slots : GetFileSearched(s)
  \/ ExtractFile
  \/ FlushLogQueue

Spec == Init /\ [][Next]_vars

\* SpecBoot: the start-up alone, from the same initial states
NextBoot ==
  \/ ClientInit
  \/ ClientInitLoaded

InitBoot == InitWith(BootResourceSets)

SpecBoot == InitBoot /\ [][NextBoot]_vars

\* SpecOne: the client controller over one content of the resources directory
OneResourceSet == {r \in ResourceSets : Len(r["a.grf"]) = 3}

InitOne == InitWith(OneResourceSet)

SpecOne == InitOne /\ [][Next]_vars

\* SpecCorrupt: the client controller over archives that list an entry whose
\* extraction yields no content (getFile of the archive resolves to null)
CorruptResourceSets ==
  {[g \in GrfNames |->
      IF g = "a.grf"
      THEN <<File(FooBack, NoData), File(MojiBack, Buf("a3", 5))>>
      ELSE <<File(FooBack, d), File(KoreanBack, Buf("b2", 7))>>] :
     d \in {NoData, Buf("b1", 6)}}

InitCorrupt == InitWith(CorruptResourceSets)

SpecCorrupt == InitCorrupt /\ [][Next]_vars

(***************************************************************************)
(* SpecFormat: the validator is asked for the format of one archive.       *)
(***************************************************************************)
FormatName == "a.grf"

\* validateGrfFormat(grfPath) of the archive of the directory
ValidateFormat ==
  /\ validation = <<>>
  /\ validation' = ValidateGrfFormat(archives[FormatName])
  /\ openFds' = openFds \cup FdsLeftOpen(FormatName)
  /\ UNCHANGED <<fileCache, cacheLog, resources, dataIni, pathMapping, localFiles, AutoExtract,
                 grfs, fileIndex, indexBuilt, initPc, requests, immediates, missingFiles,
                 missingFilesSet, logQueue, logFlushTimer, missingFilesLog, fetched, archives,
                 serverPc, tools, listedFiles, alerts, reads>>

InitFormat ==
  /\ fileCache = NewLRUCache(DefaultMaxFiles, DefaultMaxMemoryMB * 1024 * 1024)
  /\ lastOp = Op("new", 0, NoData, NoData, <<>>)
  /\ recency = <<>>
  /\ opCount = 0
  /\ nextFill = 0
  /\ script = -1
  /\ resources = <<>>
  /\ dataIni = <<>>
  /\ pathMapping = NoMapping
  /\ localFiles = <<>>
  /\ AutoExtract = FALSE
  /\ grfs = <<>>
  /\ fileIndex = <<>>
  /\ indexBuilt = FALSE
  /\ initPc = "idle"
  /\ requests = <<>>
  /\ immediates = <<>>
  /\ missingFiles = <<>>
  /\ missingFilesSet = {}
  /\ logQueue = <<>>
  /\ logFlushTimer = FALSE
  /\ missingFilesLog = <<>>
  /\ fetched = <<>>
  /\ listedFiles = <<>>
  /\ NoReads
  /\ openFds = {}
  /\ NoAlerts
  /\ archives \in {[g \in {FormatName} |-> f] : f \in FormatFiles}
  /\ serverPc = "validating"
  /\ validation = <<>>
  /\ NoTools

NextFormat == ValidateFormat

SpecFormat == InitFormat /\ [][NextFormat]_vars

(***************************************************************************)
(* SpecInflate: validateGrfFormat of one archive file with a sound header, *)
(* over the ways its file table can be cut, mis-declared or corrupt.       *)
(***************************************************************************)
\* the file tables: a table header of 7 or 8 bytes, a compressed size of 0 or that of
\* the stream, a declared uncompressed size of 0, one less or one more than the
\* stream inflates to, exactly that, or above the guardrail, a stream cut by one
\* byte or whole, and a stream that zlib inflates or rejects
InflateTables ==
  {[headerLength |-> h, compressedSize |-> c, uncompressedSize |-> u,
    available |-> a, inflates |-> z, data |-> Table32] :
     h \in {7, 8}, c \in {0, 40},
     u \in {0, Len(Table32) - 1, Len(Table32), Len(Table32) + 1, MaxUncompressed + 1},
     a \in {39, 40}, z \in BOOLEAN}

InflateFiles ==
  {GrfFile(200, MasterOfMagic \o <<0>>, NoEncryption, ver, 3, t, loads) :
     ver \in {512, 768}, t \in InflateTables, loads \in BOOLEAN}

InitInflate ==
  /\ fileCache = NewLRUCache(DefaultMaxFiles, DefaultMaxMemoryMB * 1024 * 1024)
  /\ lastOp = Op("new", 0, NoData, NoData, <<>>)
  /\ recency = <<>>
  /\ opCount = 0
  /\ nextFill = 0
  /\ script = -1
  /\ resources = <<>>
  /\ dataIni = <<>>
  /\ pathMapping = NoMapping
  /\ localFiles = <<>>
  /\ AutoExtract = FALSE
  /\ grfs = <<>>
  /\ fileIndex = <<>>
  /\ indexBuilt = FALSE
  /\ initPc = "idle"
  /\ requests = <<>>
  /\ immediates = <<>>
  /\ missingFiles = <<>>
  /\ missingFilesSet = {}
  /\ logQueue = <<>>
  /\ logFlushTimer = FALSE
  /\ missingFilesLog = <<>>
  /\ fetched = <<>>
  /\ listedFiles = <<>>
  /\ NoReads
  /\ openFds = {}
  /\ NoAlerts
  /\ archives \in {[g \in {FormatName} |-> f] : f \in InflateFiles}
  /\ serverPc = "validating"
  /\ validation = <<>>
  /\ NoTools

NextInflate == ValidateFormat

SpecInflate == InitInflate /\ [][NextInflate]_vars

(***************************************************************************)
(* tools/validate-all-grfs.mjs: main().  What validateGrf returns for an    *)
(* archive is [success, totalFiles, badUfffd, badC1Control,                 *)
(* roundTripRepairable, roundTripFailFinal, readTestsFailed], the fields    *)
(* that the exit code and the health score read.                            *)
(***************************************************************************)
MaxGrfs == 2         \* archives in the folder that the batch validator scans
MaxCount == 1        \* names or read tests of one kind that one archive reports

GrfReport(success, totalFiles, badUfffd, badC1Control, roundTripRepairable, roundTripFailFinal, readTestsFailed) ==
  [success |-> success, totalFiles |-> totalFiles, badUfffd |-> badUfffd, badC1Control |-> badC1Control,
   roundTripRepairable |-> roundTripRepairable, roundTripFailFinal |-> roundTripFailFinal,
   readTestsFailed |-> readTestsFailed]

\* validateGrf of an archive that does not load returns success: false and an error
FailedReport == GrfReport(FALSE, 0, 0, 0, 0, 0, 0)

GrfReports ==
  {FailedReport} \cup
  {GrfReport(TRUE, 2 * MaxCount, u, c, r, f, t) :
     u \in 0..MaxCount, c \in 0..MaxCount, r \in 0..MaxCount, f \in 0..MaxCount,
     t \in 0..MaxCount}

\* report.summary as main() creates it
NewSummary ==
  [totalGrfs |-> 0, successfulLoads |-> 0, failedLoads |-> 0, totalFiles |-> 0,
   totalBadUfffd |-> 0, totalBadC1Control |-> 0, totalRoundTripRepairable |-> 0, totalRoundTripFailFinal |-> 0,
   totalReadTestsFailed |-> 0]

\* the body of the loop over grfFiles
AddReport(summary, result) ==
  IF result.success
  THEN [summary EXCEPT !.successfulLoads = @ + 1,
                       !.totalFiles = @ + result.totalFiles,
                       !.totalBadUfffd = @ + result.badUfffd,
                       !.totalBadC1Control = @ + result.badC1Control,
                       !.totalRoundTripRepairable = @ + result.roundTripRepairable,
                       !.totalRoundTripFailFinal = @ + result.roundTripFailFinal,
                       !.totalReadTestsFailed = @ + result.readTestsFailed]
  ELSE [summary EXCEPT !.failedLoads = @ + 1]

RECURSIVE AddReports(_, _)
AddReports(summary, results) ==
  IF results = <<>> THEN summary
  ELSE AddReports(AddReport(summary, Head(results)), Tail(results))

\* report.summary after the loop
Summarize(results) == AddReports([NewSummary EXCEPT !.totalGrfs = Len(results)], results)

\* the exit code of main() after the report is written
ExitCode(summary) ==
  IF summary.failedLoads > 0 THEN 2
  ELSE IF summary.totalRoundTripFailFinal > 0 \/ summary.totalReadTestsFailed > 0 THEN 1
  ELSE 0

\* main(): no archive in the folder exits with 1; else every archive is validated, the
\* report is written and the process exits
BatchMain ==
  /\ exitCode = Running
  /\ IF Len(reportGrfs) = 0
     THEN exitCode' = 1 /\ UNCHANGED reportSummary
     ELSE /\ reportSummary' = Summarize(reportGrfs)
          /\ exitCode' = ExitCode(reportSummary')
  /\ UNCHANGED <<fileCache, cacheLog, client, reportGrfs, listedFiles, alerts, reads, openFds>>

\* SpecBatch: the batch validator over a folder of up to MaxGrfs archives
InitBatch ==
  /\ fileCache = NewLRUCache(DefaultMaxFiles, DefaultMaxMemoryMB * 1024 * 1024)
  /\ lastOp = Op("new", 0, NoData, NoData, <<>>)
  /\ recency = <<>>
  /\ opCount = 0
  /\ nextFill = 0
  /\ script = -1
  /\ NoClient
  /\ reportGrfs \in UNION {[1..n -> GrfReports] : n \in 0..MaxGrfs}
  /\ reportSummary = <<>>
  /\ exitCode = Running

NextBatch == BatchMain

SpecBatch == InitBatch /\ [][NextBatch]_vars

(***************************************************************************)
(* tools/validate-all-grfs.mjs: validateGrf's loop over the names of an     *)
(* archive, validated as cp949.  A name is the sequence of its UTF-16 code  *)
(* units.  iconv-lite's cp949 codec is given on the units that the names of *)
(* the model use: an ASCII unit is one byte, U+AC02 is the bytes 81 41, any *)
(* other unit has no encoding and is written as "?"; a byte that starts no  *)
(* character decodes to U+FFFD.                                             *)
(***************************************************************************)
MaxNames == 2         \* names in one archive, the 100 names of the worked example apart

\* filename.includes("\uFFFD")
HasUfffd(s) == \E i \in 1..Len(s) : s[i] = 65533

\* hasC1Controls(s)
NameHasC1Controls(s) == \E i \in 1..Len(s) : s[i] >= 128 /\ s[i] <= 159

CountC1Controls(s) == Cardinality({i \in 1..Len(s) : s[i] >= 128 /\ s[i] <= 159})

CountHangul(s) == Cardinality({i \in 1..Len(s) : s[i] >= 44032 /\ s[i] <= 55203})

CountReplacement(s) == Cardinality({i \in 1..Len(s) : s[i] = 65533})

\* safeIconvEncode(str, enc)
RECURSIVE IconvEncode(_)
IconvEncode(str) ==
  IF str = <<>> THEN <<>>
  ELSE (CASE Head(str) < 128 -> <<Head(str)>>
          [] Head(str) = 44034 -> <<129, 65>>
          [] OTHER -> <<63>>) \o IconvEncode(Tail(str))

\* safeIconvDecode(buf, enc)
RECURSIVE IconvDecode(_)
IconvDecode(buf) ==
  IF buf = <<>> THEN <<>>
  ELSE IF Head(buf) < 128 THEN <<Head(buf)>> \o IconvDecode(Tail(buf))
  ELSE IF Head(buf) = 129 /\ Len(buf) >= 2 /\ buf[2] = 65
  THEN <<44034>> \o IconvDecode(Tail(Tail(buf)))
  ELSE <<65533>> \o IconvDecode(Tail(buf))

\* Buffer.from(s, "latin1"): the low byte of each unit
Latin1Bytes(s) == [i \in 1..Len(s) |-> s[i] % 256]

\* the end of maybeFixLatin1Mojibake: fixed is taken if it holds no more U+FFFD, no
\* more C1 controls and at least two more Hangul syllables
ImprovedOr(s, fixed) ==
  IF /\ CountReplacement(fixed) <= CountReplacement(s)
     /\ CountC1Controls(fixed) <= CountC1Controls(s)
     /\ CountHangul(fixed) >= CountHangul(s) + 2
  THEN fixed ELSE s

\* maybeFixLatin1Mojibake(s, enc)
MaybeFixLatin1Mojibake(s) ==
  IF ~(\E i \in 1..Len(s) : s[i] >= 160 /\ s[i] <= 255) THEN s
  ELSE ImprovedOr(s, IconvDecode(Latin1Bytes(s)))

\* the number of units before the first one above 0xFF
RECURSIVE PrefixLength(_)
PrefixLength(seg) ==
  IF seg = <<>> THEN 0
  ELSE IF Head(seg) > 255 THEN 0
  ELSE 1 + PrefixLength(Tail(seg))

\* the end of fixC1PrefixInSegment: merged is taken if it holds fewer C1 controls and
\* no more U+FFFD
MergedOr(seg, merged) ==
  IF CountC1Controls(merged) < CountC1Controls(seg)
     /\ CountReplacement(merged) <= CountReplacement(seg)
  THEN merged ELSE seg

\* fixC1PrefixInSegment(seg, enc)
FixC1PrefixInSegment(seg) ==
  IF ~NameHasC1Controls(seg) THEN seg
  ELSE IF PrefixLength(seg) = 0 THEN seg
  ELSE MergedOr(seg, IconvDecode(SubSeq(seg, 1, PrefixLength(seg)))
                     \o SubSeq(seg, PrefixLength(seg) + 1, Len(seg)))

\* the number of units before the first "\" or "/"
RECURSIVE SegmentLength(_)
SegmentLength(s) ==
  IF s = <<>> THEN 0
  ELSE IF Head(s) \in {92, 47} THEN 0
  ELSE 1 + SegmentLength(Tail(s))

\* s.split(/\\|\//).map(fixC1PrefixInSegment).join("\\")
RECURSIVE RepairSegments(_)
RepairSegments(s) ==
  IF SegmentLength(s) = Len(s) THEN FixC1PrefixInSegment(s)
  ELSE FixC1PrefixInSegment(SubSeq(s, 1, SegmentLength(s))) \o <<92>>
       \o RepairSegments(SubSeq(s, SegmentLength(s) + 2, Len(s)))

\* repairFilenameForValidation(filename, enc)
RepairFilenameForValidation(filename) == RepairSegments(MaybeFixLatin1Mojibake(filename))

\* roundTripOk(str, enc)
RoundTripOk(str) == IconvDecode(IconvEncode(str)) = str

\* a mutant: a name whose repaired form round-trips counts as repairable
CountNameRepairedOnly(v, filename) ==
  [v EXCEPT !.badUfffd = @ + (IF HasUfffd(filename) THEN 1 ELSE 0),
            !.badC1Control = @ + (IF NameHasC1Controls(filename) THEN 1 ELSE 0),
            !.roundTripRepairable =
               @ + (IF RoundTripOk(RepairFilenameForValidation(filename)) THEN 1 ELSE 0),
            !.roundTripFailFinal =
               @ + (IF ~RoundTripOk(RepairFilenameForValidation(filename)) THEN 1 ELSE 0)]

\* the body of "for (let i = 0; i < allFiles.length; i++)" on result.validation
CountName(v, filename) ==
  [v EXCEPT !.badUfffd = @ + (IF HasUfffd(filename) THEN 1 ELSE 0),
            !.badC1Control = @ + (IF NameHasC1Controls(filename) THEN 1 ELSE 0),
            !.roundTripRepairable =
               @ + (IF ~RoundTripOk(filename) /\ RoundTripOk(RepairFilenameForValidation(filename))
                    THEN 1 ELSE 0),
            !.roundTripFailFinal =
               @ + (IF ~RoundTripOk(RepairFilenameForValidation(filename)) THEN 1 ELSE 0)]

\* the counters of result.validation that the loop over the names writes
NoCounts ==
  [badUfffd |-> 0, badC1Control |-> 0, roundTripRepairable |-> 0, roundTripFailFinal |-> 0]

\* v with the counters of w added
AddCounts(v, w) ==
  [v EXCEPT !.badUfffd = @ + w.badUfffd,
            !.badC1Control = @ + w.badC1Control,
            !.roundTripRepairable = @ + w.roundTripRepairable,
            !.roundTripFailFinal = @ + w.roundTripFailFinal]

\* what the loop adds to the counters over allFiles[lo..hi]: the counters only grow, so
\* it is what the loop adds over the first half plus what it adds over the second
RECURSIVE CountNames(_, _, _)
CountNames(allFiles, lo, hi) ==
  IF lo > hi THEN NoCounts
  ELSE IF lo = hi THEN CountName(NoCounts, allFiles[lo])
  ELSE AddCounts(CountNames(allFiles, lo, (lo + hi) \div 2),
                 CountNames(allFiles, (lo + hi) \div 2 + 1, hi))

\* validateGrf(grfPath, encoding) of the file [loads, names, readFails]: the names that
\* the library lists, and how many of the sampled reads yield no data
ValidateGrfNames(file) ==
  IF ~file.loads THEN FailedReport
  ELSE AddCounts(GrfReport(TRUE, Len(file.names), 0, 0, 0, 0, file.readFails),
                 CountNames(file.names, 1, Len(file.names)))

\* main() over the folder: no archive exits with 1; else every archive is validated,
\* the report is written and the process exits
BatchMainOfFolder ==
  /\ exitCode = Running
  /\ reportGrfs = <<>>
  /\ IF Len(archives) = 0
     THEN exitCode' = 1 /\ UNCHANGED <<reportGrfs, reportSummary>>
     ELSE /\ reportGrfs' = [i \in 1..Len(archives) |-> ValidateGrfNames(archives[i])]
          /\ reportSummary' = Summarize(reportGrfs')
          /\ exitCode' = ExitCode(reportSummary')
  /\ UNCHANGED <<fileCache, cacheLog, client, listedFiles, alerts, reads, openFds>>

\* n / d rounded to the nearest integer, halves away from zero
RoundDiv(n, d) ==
  IF n >= 0 THEN (2 * n + d) \div (2 * d) ELSE 0 - ((d - 2 * n) \div (2 * d))

\* healthPct of the summary that main() prints, in units of 0.0001 %
HealthPct(summary) ==
  IF summary.totalFiles > 0
  THEN RoundDiv((summary.totalFiles - (summary.totalBadUfffd + summary.totalBadC1Control))
                * 1000000, summary.totalFiles)
  ELSE 0

\* the names: plain ASCII, U+FFFD, U+AC02 read as the units 81 41, a lone unit 81,
\* U+AC02 itself, units 81 41 in the first segment of a path, a unit 81 before
\* U+FFFD, and U+0100, which cp949 does not hold
BatchNames ==
  {<<97>>, <<65533>>, <<129, 65>>, <<129>>, <<44034>>, <<129, 65, 47, 97>>,
   <<129, 65533>>, <<256>>}

\* the worked example: 100 names, 2 with U+FFFD, 5 with C1 controls that the repair
\* removes, 93 plain
ExampleNames ==
  [i \in 1..100 |-> IF i \in {1, 50} THEN <<65533>>
                    ELSE IF i \in {2, 3, 4, 99, 100} THEN <<129, 65>>
                    ELSE <<97>>]

NameLists == UNION {[1..n -> BatchNames] : n \in 0..MaxNames} \cup {ExampleNames}

NameFiles ==
  {[loads |-> l, names |-> ns, readFails |-> t] :
     l \in BOOLEAN, ns \in NameLists, t \in 0..1}

InitNames ==
  /\ fileCache = NewLRUCache(DefaultMaxFiles, DefaultMaxMemoryMB * 1024 * 1024)
  /\ lastOp = Op("new", 0, NoData, NoData, <<>>)
  /\ recency = <<>>
  /\ opCount = 0
  /\ nextFill = 0
  /\ script = -1
  /\ resources = <<>>
  /\ dataIni = <<>>
  /\ pathMapping = [loaded |-> FALSE, paths |-> <<>>]
  /\ localFiles = <<>>
  /\ AutoExtract = FALSE
  /\ grfs = <<>>
  /\ fileIndex = <<>>
  /\ indexBuilt = FALSE
  /\ initPc = "idle"
  /\ requests = <<>>
  /\ immediates = <<>>
  /\ missingFiles = <<>>
  /\ missingFilesSet = {}
  /\ logQueue = <<>>
  /\ logFlushTimer = FALSE
  /\ missingFilesLog = <<>>
  /\ fetched = <<>>
  /\ listedFiles = <<>>
  /\ NoReads
  /\ openFds = {}
  /\ NoAlerts
  /\ archives \in {<<>>} \cup {<<f>> : f \in NameFiles}
  /\ serverPc = "validating"
  /\ validation = <<>>
  /\ reportGrfs = <<>>
  /\ reportSummary = <<>>
  /\ exitCode = Running

NextNames == BatchMainOfFolder

SpecNames == InitNames /\ [][NextNames]_vars

(***************************************************************************)
(* SpecServer: the whole process over resources directories in which an     *)
(* archive may be missing, of a version the validator refuses, or one the   *)
(* library does not load.                                                   *)
(***************************************************************************)
\* a well-formed archive of version 0x103
OldFile ==
  GrfFile(200, MasterOfMagic \o <<0>>, NoEncryption, 259, 1,
          Table(TableEntry(NameA, 10, 1, 0, 4)), TRUE)

\* a well-formed 0x200 archive that the library fails to load
UnloadableFile ==
  GrfFile(200, MasterOfMagic \o <<0>>, NoEncryption, 512, 1,
          Table(TableEntry(NameA, 10, 1, 0, 4)), FALSE)

\* the archive files of a resources directory: each name absent or one of three files
ArchiveSets ==
  UNION {[S -> {GoodFile, OldFile, UnloadableFile}] : S \in SUBSET GrfNames}

\* the tables of the archives that the library loads
Loadable(r, files) == [g \in {n \in DOMAIN files : files[n].loads} |-> r[g]]

InitServer ==
  /\ fileCache = NewLRUCache(DefaultMaxFiles, DefaultMaxMemoryMB * 1024 * 1024)
  /\ lastOp = Op("new", 0, NoData, NoData, <<>>)
  /\ recency = <<>>
  /\ opCount = 0
  /\ nextFill = 0
  /\ script = -1
  /\ archives \in ArchiveSets
  /\ resources \in {Loadable(r, archives) : r \in OneResourceSet}
  /\ dataIni \in Manifests
  /\ pathMapping = NoMapping
  /\ localFiles = <<>>
  /\ AutoExtract \in BOOLEAN
  /\ grfs = <<>>
  /\ fileIndex = <<>>
  /\ indexBuilt = FALSE
  /\ initPc = "idle"
  /\ requests = [s \in Slots |-> Idle]
  /\ immediates = <<>>
  /\ missingFiles = <<>>
  /\ missingFilesSet = {}
  /\ logQueue = <<>>
  /\ logFlushTimer = FALSE
  /\ missingFilesLog = <<>>
  /\ fetched = <<>>
  /\ listedFiles = <<>>
  /\ NoReads
  /\ openFds = {}
  /\ NoAlerts
  /\ serverPc = "validating"
  /\ validation = <<>>
  /\ NoTools

SpecServer == InitServer /\ [][Next]_vars

(***************************************************************************)
(* SpecTwo: two callers of getFile at once, on a server that has started   *)
(* and whose client is initialised, over one archive.                      *)
(***************************************************************************)
TwoSlots == {1, 2}

BigBack == <<"data", "\\", "big.bin">>

\* a content above a tenth of a 1 MB budget and below a tenth of the default one
BigLength == 200000

TwoResources ==
  [g \in {"a.grf"} |-> <<File(FooBack, Buf("a1", 3)), File(BigBack, Buf("a2", BigLength))>>]

TwoManifest == <<SectionLine("data"), ParamLine("0", "a.grf")>>

\* CACHE_MAX_FILES and CACHE_MAX_MEMORY_MB as the environment may set them
TwoCaches ==
  {NewLRUCache(n, mb * 1024 * 1024) : n \in {1, DefaultMaxFiles}, mb \in {1, DefaultMaxMemoryMB}}

\* the files below the server root: none, or a copy of foo.txt under its upper-case path
TwoLocalFiles ==
  {<<>>, [p \in {<<"DATA", "/", "FOO.TXT">>} |-> Buf("local", 4)]}

TwoPaths ==
  { <<"data", "/", "foo.txt">>, <<"DATA", "/", "FOO.TXT">>, <<"data", "/", "big.bin">>,
    <<"data", "/", "none.txt">> }

InitTwo ==
  /\ fileCache \in TwoCaches
  /\ lastOp = Op("new", 0, NoData, NoData, <<>>)
  /\ recency = <<>>
  /\ opCount = 0
  /\ nextFill = 0
  /\ script = -1
  /\ resources = TwoResources
  /\ dataIni = TwoManifest
  /\ pathMapping = NoMapping
  /\ localFiles \in TwoLocalFiles
  /\ AutoExtract = FALSE
  /\ grfs = [i \in 1..Len(LoadOrder(TwoManifest)) |-> GrfLoad(LoadOrder(TwoManifest)[i])]
  /\ fileIndex = BuildFileIndex(grfs, NoMapping)
  /\ indexBuilt = TRUE
  /\ initPc = "done"
  /\ requests = [s \in TwoSlots |-> Idle]
  /\ immediates = <<>>
  /\ missingFiles = <<>>
  /\ missingFilesSet = {}
  /\ logQueue = <<>>
  /\ logFlushTimer = FALSE
  /\ missingFilesLog = <<>>
  /\ fetched = <<>>
  /\ listedFiles = <<>>
  /\ NoReads
  /\ openFds = {}
  /\ NoAlerts
  /\ archives = [g \in DOMAIN TwoResources |-> GoodFile]
  /\ serverPc = "listening"
  /\ validation = ValidateAll(TwoManifest)
  /\ NoTools

NextTwo ==
  \/ \E s \in TwoSlots, filePath \in TwoPaths : GetFile(s, filePath)
  \/ \E s \in TwoSlots : GetFileIndexed(s)
  \/ \E s \in TwoSlots : GetFileSearched(s)

SpecTwo == InitTwo /\ [][NextTwo]_vars

(***************************************************************************)
(* SpecNorm: getFile of paths spelled with doubled separators or in        *)
(* Unicode normal form D, on a server that has started and whose client is *)
(* initialised, over one archive.                                          *)
(***************************************************************************)
\* e-acute as one code point (NFC) and as "e" with a combining acute accent (NFD)
NfcName == "U+00E9.txt"

NfdName == "U+0065U+0301.txt"

\* String.prototype.normalize("NFC") on one name
NfcOfName(t) == IF t = NfdName THEN NfcName ELSE t

\* replace(/[\\/]+/g, "/")
RECURSIVE CollapseSeparators(_)
CollapseSeparators(p) ==
  IF p = <<>> THEN <<>>
  ELSE IF p[1] \in {"/", "\\"}
  THEN IF Len(p) > 1 /\ p[2] \in {"/", "\\"}
       THEN CollapseSeparators(Tail(p))
       ELSE <<"/">> \o CollapseSeparators(Tail(p))
  ELSE <<p[1]>> \o CollapseSeparators(Tail(p))

\* normPath of the validators
NormPath(p) ==
  LET q == ToLowerCase(CollapseSeparators(p))
  IN [i \in 1..Len(q) |-> NfcOfName(q[i])]

AccentBack == <<"data", "\\", NfcName>>

NormResources ==
  [g \in {"a.grf"} |-> <<File(FooBack, Buf("a1", 3)), File(AccentBack, Buf("a2", 5))>>]

\* the files below the server root: none, or a copy of foo.txt
NormLocalFiles ==
  {<<>>, [p \in {<<"data", "/", "foo.txt">>} |-> Buf("local", 4)]}

NormPaths ==
  { <<"data", "/", "foo.txt">>, <<"data", "/", "/", "foo.txt">>,
    <<"DATA", "\\", "\\", "FOO.TXT">>,
    <<"data", "/", NfcName>>, <<"data", "/", NfdName>> }

InitNorm ==
  /\ fileCache \in TwoCaches
  /\ lastOp = Op("new", 0, NoData, NoData, <<>>)
  /\ recency = <<>>
  /\ opCount = 0
  /\ nextFill = 0
  /\ script = -1
  /\ resources = NormResources
  /\ dataIni = TwoManifest
  /\ pathMapping = NoMapping
  /\ localFiles \in NormLocalFiles
  /\ AutoExtract = FALSE
  /\ grfs = [i \in 1..Len(LoadOrder(TwoManifest)) |-> GrfLoad(LoadOrder(TwoManifest)[i])]
  /\ fileIndex = BuildFileIndex(grfs, NoMapping)
  /\ indexBuilt = TRUE
  /\ initPc = "done"
  /\ requests = [s \in Slots |-> Idle]
  /\ immediates = <<>>
  /\ missingFiles = <<>>
  /\ missingFilesSet = {}
  /\ logQueue = <<>>
  /\ logFlushTimer = FALSE
  /\ missingFilesLog = <<>>
  /\ fetched = <<>>
  /\ listedFiles = <<>>
  /\ NoReads
  /\ openFds = {}
  /\ NoAlerts
  /\ archives = [g \in DOMAIN NormResources |-> GoodFile]
  /\ serverPc = "listening"
  /\ validation = ValidateAll(TwoManifest)
  /\ NoTools

NextNorm ==
  \/ \E s \in Slots, filePath \in NormPaths : GetFile(s, filePath)
  \/ \E s \in Slots : GetFileIndexed(s)
  \/ \E s \in Slots : GetFileSearched(s)

SpecNorm == InitNorm /\ [][NextNorm]_vars

(***************************************************************************)
(* SpecList: the /list-files route and fetches of the paths it returned,   *)
(* from the start of the process, with or without a file of the server     *)
(* root at the path of an archive file.                                    *)
(***************************************************************************)
\* a mutant: the array holds a path once for every index key that leads to it
SetAddAgain(set, x) == Append(set, x)

\* Set.prototype.add: a Set keeps its values once each, in insertion order
SetAdd(set, x) == IF x \in RangeOf(set) THEN set ELSE Append(set, x)

RECURSIVE AddAll(_, _)
AddAll(set, xs) == IF xs = <<>> THEN set ELSE AddAll(SetAdd(set, Head(xs)), Tail(xs))

\* "Fallback to GRF iteration": files.forEach(file => allFiles.add(file)) of each archive
RECURSIVE AddAllOf(_, _)
AddAllOf(set, gs) ==
  IF gs = <<>> THEN set ELSE AddAllOf(AddAll(set, GrfListFiles(Head(gs))), Tail(gs))

\* Client.listFiles()
ListFiles(idx, built, gs) ==
  IF built
  THEN AddAll(<<>>, [i \in 1..Len(idx) |-> idx[i].entry.originalPath])
  ELSE AddAllOf(<<>>, gs)

\* router.get('/list-files'): res.json(Client.listFiles())
ListFilesRoute ==
  /\ serverPc = "listening"
  /\ listedFiles' = ListFiles(fileIndex, indexBuilt, grfs)
  /\ UNCHANGED <<fileCache, cacheLog, client, tools, alerts, reads, openFds>>

\* a client fetches one of the paths /list-files gave it
GetListedFile(s) == \E filePath \in RangeOf(listedFiles) : GetFile(s, filePath)

\* the files below the server root: none, or a file at the path of an archive file
ListLocalFiles == {<<>>, [p \in {FooBack} |-> Buf("local", 4)]}

InitList ==
  /\ fileCache = NewLRUCache(DefaultMaxFiles, DefaultMaxMemoryMB * 1024 * 1024)
  /\ lastOp = Op("new", 0, NoData, NoData, <<>>)
  /\ recency = <<>>
  /\ opCount = 0
  /\ nextFill = 0
  /\ script = -1
  /\ resources \in ResourceSets
  /\ dataIni \in Manifests
  /\ pathMapping \in PathMappings(dataIni)
  /\ localFiles \in ListLocalFiles
  /\ AutoExtract \in BOOLEAN
  /\ grfs = <<>>
  /\ fileIndex = <<>>
  /\ indexBuilt = FALSE
  /\ initPc = "idle"
  /\ requests = [s \in Slots |-> Idle]
  /\ immediates = <<>>
  /\ missingFiles = <<>>
  /\ missingFilesSet = {}
  /\ logQueue = <<>>
  /\ logFlushTimer = FALSE
  /\ missingFilesLog = <<>>
  /\ fetched = <<>>
  /\ listedFiles = <<>>
  /\ NoReads
  /\ openFds = {}
  /\ NoAlerts
  /\ archives = [g \in DOMAIN resources |-> GoodFile]
  /\ serverPc = "validating"
  /\ validation = <<>>
  /\ NoTools

NextList ==
  \/ ClientInit
  \/ ClientInitLoaded
  \/ StartServer
  \/ ListFilesRoute
  \/ \E s \in Slots : GetListedFile(s)
  \/ \E s \in Slots : GetFileIndexed(s)
  \/ ExtractFile

SpecList == InitList /\ [][NextList]_vars

(***************************************************************************)
(* SpecMissing: logMissingFile, the flush of the log queue and the clock,  *)
(* on a server that has logged no path, a few, or nearly MaxMissing of     *)
(* them.  Requested paths are numbered in the order of their first miss.   *)
(***************************************************************************)
MaxLogs == 2          \* paths first missed in one run
MaxElapsed == 120000  \* ms that the clock may read above Boot

\* the paths logged before the run starts
StartHeld == {0, MinMissing - 1, MaxMissing - 1}

\* the requested paths: one logged before (if any was), and those first missed in the run
MissingPaths == {1} \cup ((MaxMissing + 1)..(MaxMissing + MaxLogs))

\* the ms that pass between two events
ClockSteps == {30000, 59999, 60000}

\* Date.now() reads a later time, or the wall clock is set back to the reading Boot
Tick ==
  /\ \/ \E d \in ClockSteps : now + d <= Boot + MaxElapsed /\ now' = now + d
     \/ now > Boot /\ now' = Boot
  /\ UNCHANGED <<fileCache, cacheLog, client, tools, listedFiles, lastNotificationTime,
                 notifications, reads, openFds>>

\* Client.logMissingFile(requestedPath, grfPath, null) called by getFile
LogMissing(requestedPath) ==
  /\ serverPc = "listening"
  /\ LogMissingFile(requestedPath, requestedPath)
  /\ UNCHANGED <<fileCache, cacheLog, resources, dataIni, pathMapping, localFiles, AutoExtract,
                 grfs, fileIndex, indexBuilt, initPc, requests, immediates, missingFilesLog,
                 fetched, archives, serverPc, validation, tools, listedFiles, now, reads, openFds>>

\* the module state after the first n paths were missed and logged at the reading Boot
InitMissing ==
  /\ fileCache = NewLRUCache(DefaultMaxFiles, DefaultMaxMemoryMB * 1024 * 1024)
  /\ lastOp = Op("new", 0, NoData, NoData, <<>>)
  /\ recency = <<>>
  /\ opCount = 0
  /\ nextFill = 0
  /\ script = -1
  /\ resources = <<>>
  /\ dataIni = <<>>
  /\ pathMapping = NoMapping
  /\ localFiles = <<>>
  /\ AutoExtract = FALSE
  /\ grfs = <<>>
  /\ fileIndex = <<>>
  /\ indexBuilt = FALSE
  /\ initPc = "done"
  /\ requests = <<>>
  /\ immediates = <<>>
  /\ \E n \in StartHeld :
       /\ missingFiles = [i \in 1..n |-> LogEntry(i, i)]
       /\ missingFilesSet = 1..n
       /\ missingFilesLog = [i \in 1..n |-> LogEntry(i, i)]
       /\ lastNotificationTime = IF n >= MinMissing THEN Boot ELSE 0
       /\ notifications = IF n >= MinMissing THEN <<[at |-> Boot, held |-> MinMissing]>> ELSE <<>>
  /\ logQueue = <<>>
  /\ logFlushTimer = FALSE
  /\ fetched = <<>>
  /\ listedFiles = <<>>
  /\ NoReads
  /\ openFds = {}
  /\ now \in {Boot, Boot + 60000}
  /\ archives = <<>>
  /\ serverPc = "listening"
  /\ validation = <<>>
  /\ NoTools

NextMissing ==
  \/ \E requestedPath \in MissingPaths : LogMissing(requestedPath)
  \/ FlushLogQueue
  \/ Tick

SpecMissing == InitMissing /\ [][NextMissing]_vars

\* SpecFlush: as SpecMissing from the start of the process, with no path missed yet,
\* and a timeout that is armed fires after its delay
InitFlush == InitMissing /\ missingFiles = <<>>

SpecFlush == InitFlush /\ [][NextMissing]_vars /\ WF_vars(FlushLogQueue)

(***************************************************************************)
(* SpecRead: every operation of the client that reads the file index,      *)
(* from the start of the process.  A regular expression is modelled by the *)
(* file extension it asks for, /\.txt$/i as "txt".                         *)
(***************************************************************************)
WarmLimit == 50

\* the extension of a file name, in lower case
Extension(t) ==
  CASE t \in {"foo.txt", "FOO.TXT", "Foo.txt", "none.txt"} -> "txt"
    [] t \in {MojiName, MojiNameLower, KoreanName, KoreanNameUpper, "user.bmp"} -> "bmp"
    [] OTHER -> ""

\* regex.test(path)
RegexTest(regex, p) == p # <<>> /\ Extension(p[Len(p)]) = regex

\* the patterns of warmCache when it is given none: .gat, .rsw, loading/, cardbmp/
DefaultPatterns == <<"gat", "rsw">>

\* the regular expressions that callers pass
Regexes == {"txt", "gat"}

PatternLists == {<<>>, <<"bmp", "txt">>}

\* the originalPath of the index entries that regex matches, once each
RECURSIVE MatchingFiles(_, _, _)
MatchingFiles(set, xs, regex) ==
  IF xs = <<>> THEN set
  ELSE MatchingFiles(IF RegexTest(regex, Head(xs)) THEN SetAdd(set, Head(xs)) ELSE set,
                     Tail(xs), regex)

\* "Fallback": the paths of every archive that regex matches, once each
RECURSIVE MatchingFilesOf(_, _, _)
MatchingFilesOf(set, gs, regex) ==
  IF gs = <<>> THEN set
  ELSE MatchingFilesOf(MatchingFiles(set, GrfListFiles(Head(gs)), regex), Tail(gs), regex)

\* Client.search(regex)
ClientSearch(regex) ==
  IF ~EnableSearch THEN <<>>
  ELSE IF indexBuilt
  THEN MatchingFiles(<<>>, [i \in 1..Len(fileIndex) |-> fileIndex[i].entry.originalPath], regex)
  ELSE MatchingFilesOf(<<>>, grfs, regex)

\* router.post('/search'): Client.search(regex), or status 400 when search is disabled
SearchRoute(regex) ==
  /\ serverPc = "listening"
  /\ reply' = IF ~EnableSearch THEN [op |-> "search: status 400", value |-> <<>>]
              ELSE [op |-> "search", value |-> ClientSearch(regex)]
  /\ UNCHANGED <<fileCache, cacheLog, client, tools, listedFiles, alerts, EnableSearch, warming, openFds>>

\* Client.getIndexStats()
GetIndexStats ==
  /\ serverPc # "exited"
  /\ reply' = [op |-> "getIndexStats",
               value |-> [totalFiles |-> Len(fileIndex), grfCount |-> Len(grfs),
                          indexBuilt |-> indexBuilt]]
  /\ UNCHANGED <<fileCache, cacheLog, client, tools, listedFiles, alerts, EnableSearch, warming, openFds>>

\* does one of the patterns match the path
RECURSIVE AnyMatches(_, _)
AnyMatches(patterns, p) ==
  patterns # <<>> /\ (RegexTest(Head(patterns), p) \/ AnyMatches(Tail(patterns), p))

\* the loop of warmCache from index entry i on, up to its next await or its end: the
\* first entry that a pattern matches is asked of its archive
RECURSIVE WarmFrom(_, _, _)
WarmFrom(patterns, i, warmed) ==
  IF i > Len(fileIndex) \/ warmed >= WarmLimit
  THEN [pc |-> "done", patterns |-> patterns, i |-> i, warmed |-> warmed]
  ELSE IF AnyMatches(patterns, fileIndex[i].entry.originalPath)
          /\ fileIndex[i].entry.grfIndex < Len(grfs)
  THEN [pc |-> "await", patterns |-> patterns, i |-> i, warmed |-> warmed]
  ELSE WarmFrom(patterns, i + 1, warmed)

\* a mutant: warmCache builds the index anew before it reads it
WarmCacheRebuilding(patterns) ==
  /\ serverPc # "exited"
  /\ warming.pc = "idle"
  /\ fileIndex' = BuildFileIndex(grfs, NoMapping)
  /\ warming' = WarmFrom(IF Len(patterns) > 0 THEN patterns ELSE DefaultPatterns, 1, 0)
  /\ UNCHANGED <<fileCache, cacheLog, resources, dataIni, pathMapping, localFiles, AutoExtract,
                 grfs, indexBuilt, initPc, requests, immediates, missingFiles,
                 missingFilesSet, logQueue, logFlushTimer, missingFilesLog, fetched,
                 archives, serverPc, validation, tools, listedFiles, alerts, EnableSearch, reply, openFds>>

\* Client.warmCache(patterns) up to its first await or its return
WarmCache(patterns) ==
  /\ serverPc # "exited"
  /\ warming.pc = "idle"
  /\ warming' = WarmFrom(IF Len(patterns) > 0 THEN patterns ELSE DefaultPatterns, 1, 0)
  /\ UNCHANGED <<fileCache, cacheLog, client, tools, listedFiles, alerts, EnableSearch, reply, openFds>>

\* warmCache after "await grf.getFile(entry.originalPath)"
WarmCacheAwaited ==
  /\ serverPc # "exited"
  /\ warming.pc = "await"
  /\ LET entry == fileIndex[warming.i].entry
         content == GrfGetFile(grfs[entry.grfIndex + 1], entry.originalPath)
     IN IF content.isBuffer
        THEN /\ fileCache' = LRUCacheSet(fileCache, ToLowerCase(entry.originalPath), content).c
             /\ warming' = WarmFrom(warming.patterns, warming.i + 1, warming.warmed + 1)
        ELSE /\ fileCache' = fileCache
             /\ warming' = WarmFrom(warming.patterns, warming.i + 1, warming.warmed)
  /\ UNCHANGED <<cacheLog, client, tools, listedFiles, alerts, EnableSearch, reply, openFds>>

\* a DATA.INI that names both archives
ReadManifest == <<SectionLine("data"), ParamLine("0", "a.grf"), ParamLine("1", "b.grf")>>

InitRead ==
  /\ fileCache = NewLRUCache(DefaultMaxFiles, DefaultMaxMemoryMB * 1024 * 1024)
  /\ lastOp = Op("new", 0, NoData, NoData, <<>>)
  /\ recency = <<>>
  /\ opCount = 0
  /\ nextFill = 0
  /\ script = -1
  /\ resources \in OneResourceSet
  /\ dataIni = ReadManifest
  /\ pathMapping \in {NoMapping, Loaded(HandWritten)}
  /\ localFiles = <<>>
  /\ AutoExtract = FALSE
  /\ grfs = <<>>
  /\ fileIndex = <<>>
  /\ indexBuilt = FALSE
  /\ initPc = "idle"
  /\ requests = [s \in Slots |-> Idle]
  /\ immediates = <<>>
  /\ missingFiles = <<>>
  /\ missingFilesSet = {}
  /\ logQueue = <<>>
  /\ logFlushTimer = FALSE
  /\ missingFilesLog = <<>>
  /\ fetched = <<>>
  /\ listedFiles = <<>>
  /\ archives = [g \in DOMAIN resources |-> GoodFile]
  /\ serverPc = "validating"
  /\ validation = <<>>
  /\ NoTools
  /\ NoAlerts
  /\ EnableSearch \in BOOLEAN
  /\ warming = NotWarming
  /\ reply = NoReply
  /\ openFds = {}

\* the paths clients ask for: one that archives hold and one that none holds
ReadPaths == {<<"DATA", "\\", "FOO.TXT">>, <<"data", "/", "none.txt">>}

NextRead ==
  \/ ClientInit
  \/ ClientInitLoaded
  \/ StartServer
  \/ \E s \in Slots, filePath \in ReadPaths : GetFile(s, filePath)
  \/ \E s \in Slots : GetFileIndexed(s)
  \/ \E s \in Slots : GetFileSearched(s)
  \/ ListFilesRoute
  \/ \E regex \in Regexes : SearchRoute(regex)
  \/ GetIndexStats
  \/ \E patterns \in PatternLists : WarmCache(patterns)
  \/ WarmCacheAwaited

SpecRead == InitRead /\ [][NextRead]_vars

(***************************************************************************)
(* Claims about the cache.                                                 *)
(***************************************************************************)

\* C3: after every cache operation the number of entries is at most maxSize and
\* currentMemory is at most maxMemoryBytes, for every non-negative configuration.
C3_BothBoundsHold ==
  /\ Len(fileCache.cache) <= fileCache.maxSize
  /\ fileCache.currentMemory <= fileCache.maxMemoryBytes

\* C8: a get of a present key returns its buffer and leaves the key the most
\* recently used entry; the entries a set evicts were present and each of them was
\* used less recently than every entry the set leaves in the cache.
C8_EvictsLeastRecentlyUsed ==
  [][ /\ (lastOp'.op = "get" /\ MapHas(fileCache.cache, lastOp'.key)) =>
           /\ lastOp'.ret = MapGet(fileCache.cache, lastOp'.key).data
           /\ MapKeys(fileCache'.cache) = MapKeys(fileCache.cache)
           /\ recency'[Len(recency')] = lastOp'.key
      /\ lastOp'.op = "set" =>
           LET gone == MapKeys(fileCache.cache) \ (MapKeys(fileCache'.cache) \cup {lastOp'.key})
               kept == MapKeys(fileCache'.cache) \ {lastOp'.key}
           IN /\ gone = RangeOf(lastOp'.evicted)
              /\ \A e \in gone : \A r \in kept : Pos(recency, e) < Pos(recency, r)
    ]_vars

\* C8 witness: a set has evicted an entry after a get had hit.
C8_EvictionAfterHit ==
  /\ lastOp.op = "set"
  /\ Len(lastOp.evicted) > 0
  /\ fileCache.hits > 0
  /\ Len(fileCache.cache) > 1

\* C9 as stated: k1, k2, k3 leave 2 entries and 800 bytes with k1 evicted; k4 leaves
\* 1 entry and 900 bytes; k5 leaves 1 entry and 200 bytes.
C9_AsStated ==
  /\ script = 3 => /\ Len(fileCache.cache) = 2
                   /\ fileCache.currentMemory = 800
                   /\ ~MapHas(fileCache.cache, 1)
  /\ script = 4 => Len(fileCache.cache) = 1 /\ fileCache.currentMemory = 900
  /\ script = 5 => Len(fileCache.cache) = 1 /\ fileCache.currentMemory = 200

\* C9 amended: with 2 entries and 1024 bytes each of the scenario's insertions is
\* larger than a tenth of the budget and is not admitted: the cache stays empty.
C9_NothingAdmitted ==
  script \in 1..5 => /\ Len(fileCache.cache) = 0
                     /\ fileCache.currentMemory = 0
                     /\ lastOp.evicted = <<>>

\* C9 witness: the five insertions of the scenario have been made.
C9_ScenarioDone == script = 5 /\ lastOp.op = "set" /\ lastOp.data.length = 200

\* C10: a set whose buffer is longer than a tenth of the byte budget changes nothing
\* of the cache: entries, their order, byte total and counters.
C10_OversizeSetChangesNothing ==
  [][ (/\ lastOp'.op = "set"
       /\ lastOp'.data.isBuffer
       /\ lastOp'.data.length * 10 > fileCache.maxMemoryBytes)
      => fileCache' = fileCache ]_vars

\* C10 witness: an oversize set was made for a key that is stored.
C10_OversizeSetOfStoredKey ==
  /\ lastOp.op = "set"
  /\ lastOp.data.isBuffer
  /\ lastOp.data.length * 10 > fileCache.maxMemoryBytes
  /\ MapHas(fileCache.cache, lastOp.key)
  /\ Len(fileCache.cache) > 1

(***************************************************************************)
(* Claims about the file index and getFile.                                *)
(***************************************************************************)
\* a name with its ASCII letters in lower case
AsciiLower(t) ==
  CASE t = "DATA" -> "data"
    [] t = "FOO.TXT" -> "foo.txt"
    [] t = "Foo.txt" -> "foo.txt"
    [] t = KoreanNameUpper -> KoreanName
    [] OTHER -> t

Separators == {"/", "\\"}

Names == {"data", "DATA", "foo.txt", "FOO.TXT", "Foo.txt", MojiName, KoreanName,
          KoreanNameUpper, "user.bmp"}

VariantTokens(t) ==
  IF t \in Separators THEN Separators ELSE {u \in Names : AsciiLower(u) = AsciiLower(t)}

\* the paths got from k by flipping slashes and changing the case of ASCII letters
RECURSIVE Variants(_)
Variants(k) ==
  IF k = <<>> THEN {<<>>}
  ELSE {<<t>> \o r : t \in VariantTokens(Head(k)), r \in Variants(Tail(k))}

\* the files of the loaded archives: [g, n] is file n of Client.grfs[g - 1]
RawFiles == UNION {{<<g, n>> : n \in 1..Len(grfs[g].files)} : g \in 1..Len(grfs)}

RawPath(gn) == grfs[gn[1]].files[gn[2]].path

RawData(gn) == grfs[gn[1]].files[gn[2]].data

\* the normalized forms of the paths of the loaded archives
ArchiveKeys == UNION {{Normalized(RawPath(gn)), NormalizedBackslash(RawPath(gn))} : gn \in RawFiles}

SameArchiveEntry(e1, e2) == e1.grfIndex = e2.grfIndex /\ e1.originalPath = e2.originalPath

FirstOfForm(fs, x) ==
  LET alike == {z \in fs : Normalized(RawPath(z)) = Normalized(RawPath(x))}
  IN CHOOSE z \in alike : \A w \in alike : z[1] < w[1] \/ (z[1] = w[1] /\ z[2] <= w[2])

\* C2: once the index is built, every raw path of a loaded archive resolves to the
\* entry of the first file with its normalized form: the first archive (in
\* Client.grfs order) that has such a path, and the first such path in it.  So two
\* raw paths with the same normalized form resolve to the same entry, and no later
\* archive and no path-mapping entry has replaced it (it carries no mappedFrom).
C2_FirstArchiveWins ==
  indexBuilt =>
    LET fs == RawFiles
    IN \A x \in fs :
         LET first == FirstOfForm(fs, x)
         IN LookupEntry(fileIndex, pathMapping, RawPath(x)) = Entry(first[1] - 1, RawPath(first))

\* C2 witness: the index is built from two archives that both hold a path of one
\* normalized form, and a path-mapping entry whose target is indexed has a key that
\* normalizes to an archive path.
C2_CollisionsAndMapping ==
  /\ indexBuilt
  /\ \E x, y \in RawFiles : x[1] # y[1] /\ Normalized(RawPath(x)) = Normalized(RawPath(y))
  /\ \E i \in 1..Len(pathMapping.paths) :
       /\ Normalized(pathMapping.paths[i].key) \in ArchiveKeys
       /\ MapHas(fileIndex, Normalized(pathMapping.paths[i].value))

\* C4: when a loaded archive stores a file under a mojibake name m, no archive stores
\* the Korean path fixMojibake(m) itself, and path-mapping.json is the one
\* convert-encoding generates from DATA.INI, every fetch of the Korean path made once
\* the index is built returns that file's bytes.
C4_KoreanPathResolves ==
  \A i \in 1..Len(fetched) : \A m \in RawFiles :
    ( /\ fetched[i].built
      /\ pathMapping = Loaded(ConvertEncoding(dataIni))
      /\ IsMojibake(RawPath(m))
      /\ Normalized(fetched[i].filePath) = Normalized(FixMojibake(RawPath(m)))
      /\ Normalized(FixMojibake(RawPath(m))) \notin ArchiveKeys )
    => fetched[i].ret = RawData(m)

\* the keys of the index when entry i of pathMapping.paths is merged: those of the
\* archives and those of the earlier entries whose target was a key by then
RECURSIVE KeysWhenMerged(_)
KeysWhenMerged(i) ==
  IF i = 1 THEN ArchiveKeys
  ELSE LET earlier == pathMapping.paths[i - 1]
       IN KeysWhenMerged(i - 1) \cup
            (IF Normalized(earlier.value) \in KeysWhenMerged(i - 1)
             THEN {Normalized(earlier.key)} ELSE {})

\* normalize(p) resolves to the archive entry of c and carries mappedFrom = p
ResolvesAs(p, c) ==
  LET r == LookupEntry(fileIndex, pathMapping, Normalized(p))
  IN /\ r # NoEntry
     /\ SameArchiveEntry(r, IndexGet(fileIndex, Normalized(c)))
     /\ r.mappedFrom = p

\* a fetch of a mojibake path that no loaded archive holds and no path-mapping entry
\* with an indexed target names, made once the index is built, returned null
UnmappedMojibakeNotFound ==
  \A i \in 1..Len(fetched) :
    ( /\ fetched[i].built
      /\ IsMojibake(fetched[i].filePath)
      /\ Normalized(fetched[i].filePath) \notin ArchiveKeys
      /\ \A n \in 1..Len(pathMapping.paths) :
           \/ Normalized(pathMapping.paths[n].key) # Normalized(fetched[i].filePath)
           \/ ~MapHas(fileIndex, Normalized(pathMapping.paths[n].value)) )
    => fetched[i].ret = NoData /\ fetched[i].via = "none"

\* C5 as stated: once the index is built, for every path-mapping entry (p -> c) with
\* normalize(c) a key of the index, normalize(p) resolves to the archive entry of c
\* with mappedFrom = p; and a mojibake path in no archive and with no such entry is
\* not found.
C5_AsStated ==
  /\ indexBuilt =>
       \A i \in 1..Len(pathMapping.paths) :
         MapHas(fileIndex, Normalized(pathMapping.paths[i].value))
           => ResolvesAs(pathMapping.paths[i].key, pathMapping.paths[i].value)
  /\ UnmappedMojibakeNotFound

\* C5 amended: the same for every entry (p -> c) for which, when it is merged (after
\* the archives and the earlier entries), normalize(c) is a key of the index and
\* normalize(p) is not.
C5_MergedWhenAbsent ==
  /\ indexBuilt =>
       \A i \in 1..Len(pathMapping.paths) :
         ( /\ Normalized(pathMapping.paths[i].value) \in KeysWhenMerged(i)
           /\ Normalized(pathMapping.paths[i].key) \notin KeysWhenMerged(i) )
           => ResolvesAs(pathMapping.paths[i].key, pathMapping.paths[i].value)
  /\ UnmappedMojibakeNotFound

\* C5 witness: a fetch was served through an index entry that the merge of the
\* path mapping had added.
C5_ServedThroughMapping ==
  \E i \in 1..Len(fetched) :
    /\ fetched[i].via = "index"
    /\ fetched[i].entry.mappedFrom # NoPath
    /\ fetched[i].ret.isBuffer
    /\ \E n \in 1..Len(pathMapping.paths) :
         /\ pathMapping.paths[n].key = fetched[i].entry.mappedFrom
         /\ Normalized(pathMapping.paths[n].key) \notin KeysWhenMerged(n)

\* C6: with one archive loaded that contains data\foo.txt, when the first two fetches
\* are "data/foo.txt" and then "DATA\FOO.TXT", both made once the index is built,
\* both return the bytes of that file and the cache counts 1 miss and 1 hit.
C6_SecondFetchHitsCache ==
  ( /\ Len(fetched) = 2
    /\ fetched[1].built
    /\ fetched[1].filePath = <<"data", "/", "foo.txt">>
    /\ fetched[2].filePath = <<"DATA", "\\", "FOO.TXT">>
    /\ Len(grfs) = 1
    /\ \E m \in RawFiles : RawPath(m) = FooBack )
  => /\ fetched[1].ret = GrfGetFile(grfs[1], FooBack)
     /\ fetched[2].ret = GrfGetFile(grfs[1], FooBack)
     /\ fileCache.misses = 1
     /\ fileCache.hits = 1

\* the archive names of the key=value lines of DATA.INI, in line order
DataLines == SelectSeq(dataIni, LAMBDA line : line.kind = "param")

\* C7: once the index is built, Client.grfs holds the archives in the order of
\* their lines in the [data] section, and where two archives hold a path of one
\* normalized form the path resolves to an archive whose line is not the later one.
C7_IngestsInLineOrder ==
  indexBuilt =>
    /\ [i \in 1..Len(grfs) |-> grfs[i].file] = [i \in 1..Len(DataLines) |-> DataLines[i].val]
    /\ \A x, y \in RawFiles :
         \A i, j \in 1..Len(DataLines) :
           ( /\ i < j
             /\ grfs[x[1]].file = DataLines[i].val
             /\ grfs[y[1]].file = DataLines[j].val
             /\ Normalized(RawPath(x)) = Normalized(RawPath(y)) )
           => grfs[LookupIndex(fileIndex, RawPath(y)).grfIndex + 1].file # DataLines[j].val

\* the records of the missing-files list, and of the log (written or queued), that
\* name the requested path p
RecordsOf(p) == {n \in 1..Len(missingFiles) : missingFiles[n].requestedPath = p}

LoggedOf(p) ==
  LET log == missingFilesLog \o logQueue
  IN {n \in 1..Len(log) : log[n].requestedPath = p}

\* the fetches of p that found it nowhere
MissesOf(p) == {i \in 1..Len(fetched) : fetched[i].filePath = p /\ fetched[i].via = "none"}

\* C11 as stated: every fetch that found its path nowhere returned null, and each
\* such fetch added a record of its own to the missing-files list.
C11_AsStated ==
  \A p \in RequestPaths :
    /\ \A i \in MissesOf(p) : fetched[i].ret = NoData
    /\ Cardinality(RecordsOf(p)) = Cardinality(MissesOf(p))

\* C11 amended: every fetch that found its path nowhere returned null; the first
\* such fetch of a requested path added one record (requested path, backslash form
\* tried) to the missing-files list and to the log queue, and later such fetches of
\* the same path added none.  A path never missed has no record.
C11_RecordedOnce ==
  \A p \in RequestPaths :
    /\ \A i \in MissesOf(p) : fetched[i].ret = NoData
    /\ Cardinality(RecordsOf(p)) = (IF MissesOf(p) = {} THEN 0 ELSE 1)
    /\ Cardinality(LoggedOf(p)) = (IF MissesOf(p) = {} THEN 0 ELSE 1)
    /\ \A n \in RecordsOf(p) : missingFiles[n] = LogEntry(p, SlashToBackslash(p))
    /\ (MissesOf(p) # {}) = (p \in missingFilesSet)

\* C11 witness: one path was fetched twice and found nowhere both times, once by
\* the sequential search over a loaded archive.
C11_MissedTwice ==
  \E p \in RequestPaths :
    /\ Cardinality(MissesOf(p)) = 2
    /\ \E i \in MissesOf(p) : fetched[i].built /\ grfs # <<>>

(***************************************************************************)
(* Claims about the start-up of the server.                                *)
(***************************************************************************)
\* is the path stored in one of the archives DATA.INI configures
InConfiguredArchive(filePath) ==
  \E i \in 1..Len(LoadOrder(dataIni)) :
     /\ LoadOrder(dataIni)[i] \in DOMAIN resources
     /\ GrfGetFile(GrfLoad(LoadOrder(dataIni)[i]), SlashToBackslash(filePath)).isBuffer

\* the fetches that were called before the index was built
EarlyFetches == {i \in 1..Len(fetched) : ~fetched[i].built}

\* C12: no fetch is served before Client.init has loaded the archives and built the
\* index: a request for a file that a configured archive contains is never answered
\* null, and never recorded as missing, because the index was not built yet
C12_ServedAfterInit ==
  \A i \in EarlyFetches :
     InConfiguredArchive(fetched[i].filePath) =>
        /\ fetched[i].ret.isBuffer
        /\ fetched[i].filePath \notin missingFilesSet

(***************************************************************************)
(* Claims about concurrent callers of getFile.                             *)
(***************************************************************************)
\* the getFile calls that missed the cache, found a buffer and handed it to set
SetCalls(log) == {i \in 1..Len(log) : log[i].via # "cache" /\ log[i].ret.isBuffer}

EntriesOf(c, key) == {n \in 1..Len(c.cache) : c.cache[n].key = key}

BothBounds(c) == Len(c.cache) <= c.maxSize /\ c.currentMemory <= c.maxMemoryBytes

\* a step in which a call returns after its set, a call of the same cache key having
\* missed and set before it
LaterSet ==
  /\ Len(fetched') = Len(fetched) + 1
  /\ Len(fetched') \in SetCalls(fetched')
  /\ \E i \in SetCalls(fetched) :
        ToLowerCase(fetched[i].filePath) = ToLowerCase(fetched'[Len(fetched')].filePath)

\* the cache holds one entry of the key of the call that just returned, with its buffer
HoldsLast ==
  LET last == fetched'[Len(fetched')]
      key == ToLowerCase(last.filePath)
  IN /\ Cardinality(EntriesOf(fileCache', key)) = 1
     /\ MapGet(fileCache'.cache, key).data = last.ret

\* every call served from the cache returned a buffer that an earlier call set under
\* the same key
GetsSeeStored ==
  \A i \in 1..Len(fetched) :
     fetched[i].via = "cache" =>
        \E j \in SetCalls(fetched) :
           /\ j < i
           /\ ToLowerCase(fetched[j].filePath) = ToLowerCase(fetched[i].filePath)
           /\ fetched[j].ret = fetched[i].ret

\* C13 as stated: under concurrent getFile calls the cache keeps both bounds; when two
\* calls miss on the same key, after both have returned the cache holds exactly one
\* entry of the key, with the buffer of the later set; every get returns absent or a
\* buffer that a set stored under the key
C13_AsStated ==
  /\ []BothBounds(fileCache)
  /\ [][LaterSet => HoldsLast]_vars
  /\ []GetsSeeStored

\* C13, amended: as stated, for a later buffer of at most a tenth of the byte budget
C13_LastWriterWins ==
  /\ []BothBounds(fileCache)
  /\ [][LaterSet /\ ~TooLarge(fileCache, fetched'[Len(fetched')].ret.length) => HoldsLast]_vars
  /\ []GetsSeeStored

\* C13 witness: a call that awaited the archive returned after a call of the same key
\* that read the local file, both had missed, and a third call got the later buffer
\* from the cache
C13_TwoMissesThenHit ==
  /\ Len(fetched) = 3
  /\ fetched[1].via = "local" /\ fetched[2].via = "index" /\ fetched[3].via = "cache"
  /\ fetched[1].filePath # fetched[2].filePath
  /\ ToLowerCase(fetched[1].filePath) = ToLowerCase(fetched[2].filePath)
  /\ ToLowerCase(fetched[3].filePath) = ToLowerCase(fetched[2].filePath)
  /\ fetched[1].ret # fetched[2].ret
  /\ fetched[3].ret = fetched[2].ret
  /\ Cardinality(EntriesOf(fileCache, ToLowerCase(fetched[2].filePath))) = 1

(***************************************************************************)
(* Claims about archives that are missing or unusable.                     *)
(***************************************************************************)
\* the archives the manifest lists, as the validator reads it
Listed == RangeOf(ValidatorParseDataINI(dataIni))

\* the archive exists, validates and loads
Usable(g) == g \in DOMAIN archives /\ ValidateGrfFormat(archives[g]).valid

Validated == validation # <<>>

\* C14 as stated: with one listed archive missing, not valid or not loading and another
\* listed archive usable, the server still starts; boot fails only when no archive loads
C14_AsStated ==
  Validated /\ (\E g \in Listed : Usable(g)) => serverPc = "listening"

\* C14, amended: the server starts only when the manifest lists an archive and every
\* listed archive exists, validates and loads; one that does not makes startServer
\* exit, also when another listed archive is usable
C14_AllOrNothing ==
  Validated =>
     /\ serverPc = "listening" <=> Listed # {} /\ \A g \in Listed : Usable(g)
     /\ serverPc = "exited" <=> Listed = {} \/ \E g \in Listed : ~Usable(g)
     /\ validation.success <=> serverPc = "listening"

\* C14 witness: startServer has exited although a listed archive is usable, another
\* listed archive being absent from the directory
C14_ExitedWithUsableArchive ==
  /\ Validated
  /\ serverPc = "exited"
  /\ \E g \in Listed : Usable(g)
  /\ \E g \in Listed : g \notin DOMAIN archives

(***************************************************************************)
(* Claims about the batch validator.                                       *)
(***************************************************************************)
\* the batch validator has validated the archives of a folder that holds some, no read
\* test has failed, and the process has exited
Exited ==
  /\ exitCode # Running
  /\ reportGrfs # <<>>
  /\ \A i \in 1..Len(reportGrfs) : reportGrfs[i].readTestsFailed = 0

AllLoaded == \A i \in 1..Len(reportGrfs) : reportGrfs[i].success

AnyFinalFail == \E i \in 1..Len(reportGrfs) : reportGrfs[i].roundTripFailFinal > 0

\* names that are repairable or hold U+FFFD
AnyWarning ==
  \E i \in 1..Len(reportGrfs) :
     reportGrfs[i].roundTripRepairable > 0 \/ reportGrfs[i].badUfffd > 0

AnyNameProblem ==
  AnyWarning \/ AnyFinalFail \/ \E i \in 1..Len(reportGrfs) : reportGrfs[i].badC1Control > 0

\* C15: the exit code of the batch validator is 0 when every archive loads and no name
\* problem is found, 1 when there are only warnings (repairable names or names with
\* U+FFFD, no final round-trip failure), and 2 when an archive failed to load or a
\* final round-trip failure is present
C15_ExitCodes ==
  Exited =>
     /\ (AllLoaded /\ ~AnyNameProblem => exitCode = 0)
     /\ (AllLoaded /\ AnyWarning /\ ~AnyFinalFail => exitCode = 1)
     /\ (~AllLoaded \/ AnyFinalFail => exitCode = 2)

(***************************************************************************)
(* Claims about the validation of the archive format.                      *)
(***************************************************************************)
\* the archive file that was validated
Archive == archives[FormatName]

FormatValidated == validation # <<>>

\* the bytes of the signature field before its first 0x00
BeforeNul(buf) ==
  LET nul == {i \in 1..Len(buf) : buf[i] = 0}
  IN IF nul = {} THEN buf ELSE SubSeq(buf, 1, (CHOOSE i \in nul : \A j \in nul : i <= j) - 1)

SignatureMatches == BeforeNul(Archive.signature) = MasterOfMagic

VersionSupported == Archive.version \in {512, 768}

\* validateGrfFormat returned at its header or version check
RefusedOnHeader ==
  /\ ~validation.valid
  /\ validation.reason \in {"Header too small (<46 bytes)", "Invalid signature",
                            "Version is not supported"}

\* C16: format validation rejects an archive whenever its header is shorter than 46
\* bytes, its signature differs from "Master of Magic", or its version is neither
\* 0x200 nor 0x300, and it rejects no archive on header grounds when the signature
\* matches and the version is 0x200 or 0x300
C16_HeaderValidation ==
  FormatValidated =>
     /\ (Archive.size < 46 \/ ~SignatureMatches \/ ~VersionSupported => RefusedOnHeader)
     /\ (Archive.size >= 46 /\ SignatureMatches /\ VersionSupported => ~RefusedOnHeader)

\* C17: an archive whose header bytes 16..29 hold a nonzero byte is rejected by
\* validation, as encrypted
C17_EncryptedRejected ==
  FormatValidated /\ (\E i \in 1..14 : Archive.encryption[i] # 0) => ~validation.valid

\* the scans of the validated archive, in the order they were made
ScansMade == Scans(Archive.table.data, ReadGrfHeader46(Archive), Archive.size)

\* validateGrfFormat got as far as choosing a layout
LayoutAnalyzed == FormatValidated /\ validation.pathEncoding.ok

\* no scan inspects more entries than s, none that inspects as many has fewer parse
\* errors, and none that ties on both has fewer offsets out of range
BestFit(s) ==
  \A i \in 1..Len(ScansMade) :
     LET t == ScansMade[i]
     IN /\ t.inspected <= s.inspected
        /\ t.inspected = s.inspected => s.parseErrors <= t.parseErrors
        /\ t.inspected = s.inspected /\ t.parseErrors = s.parseErrors =>
              s.offsetOutOfRange <= t.offsetOutOfRange

\* the archive of scenario S4 was validated
IsS4 == Archive.version = 768 /\ Archive.table.data = TableS4 /\ Archive.size = 20000000

\* C18: of a 0x200 archive only the layout with 4-byte offsets is parsed; of a 0x300
\* archive both layouts are parsed, and the one selected inspects the most entries,
\* with the fewest parse errors among those, with the fewest offsets out of range
\* among those; inspected 3 and 3 with 2 (offset32) and 0 (offset64) offsets out of
\* range selects offset64
C18_LayoutSelection ==
  LayoutAnalyzed =>
     /\ Archive.version = 512 =>
           /\ [i \in 1..Len(ScansMade) |-> ScansMade[i].layout] = <<"offset32">>
           /\ validation.pathEncoding.layout \in {"offset32", "none"}
     /\ Archive.version = 768 =>
           /\ [i \in 1..Len(ScansMade) |-> ScansMade[i].layout] = <<"offset32", "offset64">>
           /\ validation.pathEncoding.layout # "none" =>
                 /\ validation.pathEncoding.layout = validation.pathEncoding.best.layout
                 /\ \E i \in 1..Len(ScansMade) : ScansMade[i] = validation.pathEncoding.best
                 /\ BestFit(validation.pathEncoding.best)
     /\ IsS4 =>
           /\ ScansMade[1].inspected = 3 /\ ScansMade[1].offsetOutOfRange = 2
           /\ ScansMade[2].inspected = 3 /\ ScansMade[2].offsetOutOfRange = 0
           /\ validation.pathEncoding.layout = "offset64"

\* C18 witness: the archive of scenario S4 was validated and offset64 selected
C18_S4Selected ==
  /\ LayoutAnalyzed
  /\ IsS4
  /\ ScansMade[1].offsetOutOfRange = 2
  /\ validation.pathEncoding.layout = "offset64"
  /\ validation.valid

(***************************************************************************)
(* C19: lookup normalisation                                               *)
(***************************************************************************)
\* the fetches in which getFile looked the path up in the index
LookedUp == {i \in 1..Len(fetched) : fetched[i].built /\ fetched[i].via \notin {"cache", "local"}}

\* C19: a requested path resolves to the entry of its canonical form (runs of "/" or
\* "\" collapsed into one "/", lower-cased, NFC): every fetch that looked its path up
\* in the built index used the entry the index holds for the canonical form, so one
\* of a path with doubled separators or in NFD used the entry of the canonical path.
C19_ResolvesAsCanonical ==
  \A i \in LookedUp :
    fetched[i].entry = LookupEntry(fileIndex, pathMapping, NormPath(fetched[i].filePath))


(***************************************************************************)
(* C20: the paths listFiles() returns                                      *)
(***************************************************************************)
IndexValues == {fileIndex[i].entry : i \in 1..Len(fileIndex)}

\* what the archive entry that e names holds
EntryContent(e) == GrfGetFile(grfs[e.grfIndex + 1], e.originalPath)

ResolvesToItself == \A e \in IndexValues : SameArchiveEntry(LookupIndex(fileIndex, e.originalPath), e)

ListedOnce == \A i, j \in 1..Len(listedFiles) : listedFiles[i] = listedFiles[j] => i = j

\* no file below the server root answers path k or a case variant of it
NoLocalAnswer(k) == \A p \in DOMAIN localFiles : ToLowerCase(p) # ToLowerCase(LocalPath(k))

StreamRead(t) ==
  /\ t.headerLength >= 8 /\ t.compressedSize > 0 /\ t.uncompressedSize > 0
  /\ t.uncompressedSize <= MaxUncompressed /\ t.available >= t.compressedSize

\* C21: the file table inflates (the table is analysed) only when zlib decodes the
\* stream and the inflated length equals the declared uncompressedSize; an archive
\* whose stream zlib rejects, or inflates to another length, is not valid.
C21_InflateChecked ==
  FormatValidated =>
    /\ validation.pathEncoding.ok =>
         (Archive.table.inflates /\ Len(Archive.table.data) = Archive.table.uncompressedSize)
    /\ ( /\ StreamRead(Archive.table)
         /\ (~Archive.table.inflates \/ Len(Archive.table.data) # Archive.table.uncompressedSize) )
         => ~validation.valid


(***************************************************************************)
(* C22: the list of missing files                                          *)
(***************************************************************************)
\* C22: Client.missingFiles never holds more than 1,000 records, and a record added
\* to a list of 1,000 removes the oldest one and leaves the others in their order,
\* followed by the new record.
C22_BoundedRing ==
  /\ [](Len(missingFiles) <= 1000)
  /\ [][(Len(missingFiles) = 1000 /\ missingFiles' # missingFiles)
          => /\ Len(missingFiles') = 1000
             /\ SubSeq(missingFiles', 1, 999) = Tail(missingFiles)
             /\ missingFiles'[1000].requestedPath \notin missingFilesSet]_vars

\* C22 witness: the list is full and its oldest record is no longer the first path
\* ever missed.
C22_OldestDropped ==
  Len(missingFiles) = 1000 /\ missingFiles[1].requestedPath = 2


(***************************************************************************)
(* C23: the missing-files alert                                            *)
(***************************************************************************)
\* C23: every alert was printed while at least 10 records were held, any two alerts
\* were printed at clock readings at least 60,000 ms apart, and
\* lastNotificationTime changes only in a step that prints an alert, to the reading
\* of that alert.
C23_AlertCooldown ==
  /\ [](\A i \in 1..Len(notifications) : notifications[i].held >= 10)
  /\ [](\A i, j \in 1..Len(notifications) :
          i < j => notifications[j].at - notifications[i].at >= 60000)
  /\ [][lastNotificationTime' # lastNotificationTime
          => /\ notifications' = Append(notifications, [at |-> now, held |-> Len(missingFiles')])
             /\ lastNotificationTime' = now]_vars

\* C23 witness: a second alert was printed, with more records held than at the first
\* alert and the one logged with it.
C23_SecondAlert ==
  /\ Len(notifications) = 2
  /\ Len(missingFiles) > notifications[1].held + 1


(***************************************************************************)
(* C24: the file index after it is built                                   *)
(***************************************************************************)
\* C24: once buildFileIndex has completed, no step of getFile, listFiles, search,
\* warmCache, getIndexStats or logMissingFile changes the file index: its keys, their
\* order and every entry stay as built, and so does indexBuilt.
C24_IndexReadOnly ==
  [][indexBuilt => (fileIndex' = fileIndex /\ indexBuilt')]_vars

\* C24 witness: on a built, non-empty index, a fetch was served through it, a fetch
\* of an unknown path was logged as missing, /list-files and a search have answered
\* with paths, and warmCache has put a file into the cache and returned.
C24_AllReadersActed ==
  /\ indexBuilt /\ fileIndex # <<>>
  /\ \E n \in 1..Len(fetched) : fetched[n].via = "index"
  /\ missingFiles # <<>>
  /\ listedFiles # <<>>
  /\ reply.op = "search" /\ reply.value # <<>>
  /\ warming.pc = "done" /\ warming.warmed > 0

(***************************************************************************)
(* Claims about the batch validator's name checks.                         *)
(***************************************************************************)
\* the positions of the names of a list that satisfy P
NamesWhere(names, P(_)) == {i \in 1..Len(names) : P(names[i])}

ContainsUfffd(name) == 65533 \in RangeOf(name)

ContainsC1(name) == RangeOf(name) \cap (128..159) # {}

RepairableName(name) == ~RoundTripOk(name) /\ RoundTripOk(RepairFilenameForValidation(name))

FinalFailName(name) == ~RoundTripOk(RepairFilenameForValidation(name))

PlainName(name) == ~ContainsUfffd(name) /\ ~ContainsC1(name) /\ RoundTripOk(name)

\* 100 names: 2 hold U+FFFD and are not repairable, 5 hold C1 controls and are
\* repairable, the others hold neither and round-trip
IsExample(names) ==
  /\ Len(names) = 100
  /\ Cardinality(NamesWhere(names, ContainsUfffd)) = 2
  /\ NamesWhere(names, ContainsUfffd) \subseteq NamesWhere(names, FinalFailName)
  /\ Cardinality(NamesWhere(names, ContainsC1)) = 5
  /\ NamesWhere(names, ContainsC1) \subseteq NamesWhere(names, RepairableName)
  /\ Cardinality(NamesWhere(names, PlainName)) = 93

IndexedEmpty(s) ==
  /\ requests[s].pc = "index"
  /\ ~GrfGetFile(requests[s].grf, requests[s].indexEntry.originalPath).isBuffer

\* the paths that the sequential search tries for filePath
PathsTried(filePath) ==
  {SlashToBackslash(filePath)} \cup
  (IF MappedPath(pathMapping, filePath) # NoPath THEN {MappedPath(pathMapping, filePath)} ELSE {})

\* C26: when the archive that the index names yields no content, getFile goes on:
\* the step caches nothing, extracts nothing, returns nothing and starts the
\* sequential search at the first archive of Client.grfs; a call that returned null
\* after such a search found content in no archive, under no path it tried, and
\* its path is recorded as missing.
C26_EmptyExtractionFallsBack ==
  /\ [][\A s \in Slots :
         (IndexedEmpty(s) /\ requests'[s] # requests[s]) =>
            /\ fileCache' = fileCache
            /\ immediates' = immediates
            /\ fetched' = fetched
            /\ requests'[s].pc = "search"
            /\ requests'[s].searched = grfs
            /\ requests'[s].g = 1]_vars
  /\ [](\A i \in 1..Len(fetched) :
          fetched[i].via = "none" =>
            /\ ~fetched[i].ret.isBuffer
            /\ fetched[i].filePath \in missingFilesSet
            /\ fetched[i].built =>
                 \A g \in 1..Len(grfs) : \A tryPath \in PathsTried(fetched[i].filePath) :
                    ~GrfGetFile(grfs[g], tryPath).isBuffer)

\* C26 witness: a call whose path the index resolved to an entry returned null, and
\* the key of its path is not in the cache.
C26_IndexedThenNotFound ==
  \E i \in 1..Len(fetched) :
    /\ fetched[i].via = "none"
    /\ fetched[i].entry # NoEntry
    /\ fetched[i].filePath \in missingFilesSet
    /\ ~MapHas(fileCache.cache, ToLowerCase(fetched[i].filePath))

(***************************************************************************)
(* Claims about the descriptors of validateGrfFormat.                      *)
(***************************************************************************)
\* C27: when validateGrfFormat has returned, whatever the return path, no descriptor
\* that it opened is still open.
C27_DescriptorsClosed == validation # <<>> => openFds = {}

(***************************************************************************)
(* Claims about the two readers of DATA.INI.                               *)
(***************************************************************************)
\* C28: the archives that the server has loaded are, in order, the archives that the
\* start-up validation checked: Client.grfs names the files of
\* validationResults.grfs.files, one for one.
C28_LoadsWhatWasValidated ==
  (initPc = "done" /\ serverPc = "listening") =>
     [i \in 1..Len(grfs) |-> grfs[i].file] =
       [i \in 1..Len(validation.grfs.files) |-> validation.grfs.files[i].file]

(***************************************************************************)
(* Claims about the byte accounting of the cache.                          *)
(***************************************************************************)
\* the sum of the recorded sizes of the entries of a Map
RECURSIVE SumOfSizes(_)
SumOfSizes(entries) ==
  IF entries = <<>> THEN 0 ELSE Head(entries).size + SumOfSizes(Tail(entries))

\* the sum of the lengths of the buffers of the entries of a Map
RECURSIVE BytesHeld(_)
BytesHeld(entries) ==
  IF entries = <<>> THEN 0 ELSE Head(entries).data.length + BytesHeld(Tail(entries))

\* C29: after every operation of the cache, currentMemory is the sum of the recorded
\* sizes of the entries held, it is not negative, it is 0 exactly when the entries
\* hold no bytes, and no key has two entries.
C29_MemoryAccounted ==
  /\ fileCache.currentMemory = SumOfSizes(fileCache.cache)
  /\ fileCache.currentMemory >= 0
  /\ (fileCache.currentMemory = 0) <=> (BytesHeld(fileCache.cache) = 0)
  /\ \A i, j \in 1..Len(fileCache.cache) :
        fileCache.cache[i].key = fileCache.cache[j].key => i = j

\* C29 witness: a set has just evicted an entry and stored a buffer that holds bytes,
\* while another entry that holds bytes stays in the cache.
C29_EvictedAndStored ==
  /\ lastOp.op = "set"
  /\ lastOp.evicted # <<>>
  /\ lastOp.data.length > 0
  /\ Len(fileCache.cache) >= 2
  /\ fileCache.cache[Len(fileCache.cache)].key = lastOp.key
  /\ fileCache.currentMemory > lastOp.data.length

(***************************************************************************)
(* Claims about the queue of log lines.                                    *)
(***************************************************************************)
\* the line of path p is in the queue, or in the log file
Queued(p) == \E i \in 1..Len(logQueue) : logQueue[i].requestedPath = p

Written(p) == \E i \in 1..Len(missingFilesLog) : missingFilesLog[i].requestedPath = p

\* q is the sequence r or r with lines appended
Extends(q, r) == Len(q) >= Len(r) /\ SubSeq(q, 1, Len(r)) = r

=============================================================================
